---- MODULE Spec2Model ----
(***************************************************************************)
(* A model of the market-data pipeline of godtxj/dbwrite:                  *)
(*   - candle/aggregator.go : TimeframeAggregator (tick -> bar events)     *)
(*   - api/ws/hub.go        : CandleBuffer, MultiPeriodManager, Hub        *)
(*   - api/ws/client.go     : Client (outbound queue, subscriptions)       *)
(* Time is counted in whole seconds since Go's zero time; a timeframe is a *)
(* whole number of seconds.  Prices are small integers.                    *)
(***************************************************************************)
EXTENDS Integers, Sequences, FiniteSets, TLC

VARIABLES
    currentCandle,  \* TimeframeAggregator.currentCandle (NilCandle when nil)
    emitted,        \* history: the events in the order ProcessTick hands them to a publish task
    nTicks,         \* history: number of ProcessTick calls so far
    lastCall,       \* history: the tick of the last ProcessTick call and the state it found
    winTicks,       \* history: the ticks accepted into the window of currentCandle, in order
    inflight,       \* publish tasks started and not yet run: indices into emitted
    delivered,      \* indices of emitted, in the order the bus received the publishes
    maxSize,        \* MultiPeriodManager.maxSize = CandleBuffer.maxSize (the capacity N)
    db,             \* the klines table: whether m.db is set, and the rows of every key, newest first
    buffers,        \* MultiPeriodManager.buffers: per key, whether it is in the map and its candles
    fed,            \* number of emitted events the buffer manager has taken, in emission order
    lastAdd,        \* history: the last AddCandle call made on the manager alone, and the buffer it found
    cb,             \* CandleBuffer.candles of a buffer used on its own
    addedLog,       \* history: the bars passed to cb.Add, in order
    slotLog,        \* history: addedLog where every cb.Update replaced the bar newest at that time
    nOps,           \* history: number of operations made on cb
    views,          \* per reader task: the slice its last GetAll returned, as the task holds it
    lastMut,        \* history: the bars of cb before and after the last write of a reader task
    Clients,        \* Hub.Clients: the registered clients
    Subscriptions,  \* Hub.Subscriptions: channel -> set of clients (only channels in the map)
    clientSubs,     \* Client.Subscriptions, per client
    Send,           \* Client.Send, per client: the payloads queued and not yet written
    received,       \* history, per client: every message put on Send, with how it was built
    snapTasks,      \* the sendSnapshot tasks, in the order Subscribe started them
    hubPc,          \* where Hub.Run is: "idle" in the select, else inside handleKlineMessage
    hubEv,          \* the bar event handleKlineMessage is working on
    allCandles,     \* handleKlineMessage's local allCandles
    nEvents,        \* history: number of bar events taken from RedisMessages
    bufVer,         \* history, per key: number of AddCandle calls that reached the buffer
    warm,           \* history, per key: "none", "loading" (in the map, not yet loaded), "done"
    lastFan,        \* history: the last bar event handled to its end and who was subscribed then
    indPublished,   \* the indicator events the Hub has published on the bus, in order
    conn,           \* per client: "new", "open" (registered, ReadPump reading), "exiting"
                    \* (ReadPump left its loop and offers the client on Unregister), "gone"
                    \* (unregistered, Send closed)
    crashed,        \* a task has panicked on a send to a closed Send: the process has ended
    lastOp,         \* history, per client and channel: the last frame read, "subscribe",
                    \* "unsubscribe" or "none"
    klines,         \* the rows of the klines table
    wlog,           \* history: the bar events the writer has received, in order
    users,          \* TradeManager.users: user id -> account
    positions,      \* TradeManager.positions, as the set of its values
    nextPos,        \* number of position ids handed out (uuid.New is always fresh)
    lastTrade,      \* history: the last ExecuteTrade call, its request, its
                    \* response and the maps before it
    instances,      \* EARuntimeService.instances: order id -> instance
    signalChan,     \* per order id: signalChan of its instance
    handling,       \* per order id: the signal the indicator handler holds between
                    \* its read of paused and its send on signalChan, or NoSignal
    nMsgs,          \* number of indicator messages taken from the bus
    lastSig,        \* history: the last executeSignal of an instance
    lastEnq,        \* history: the last send on a signalChan
    active,         \* the order ids that are keys of EARuntimeService.instances
                    \* (instances keeps an order's instance after its unlinking,
                    \* for the tasks that still hold it)
    tasks,          \* per order id: its instance's subscriber and dispatcher,
                    \* each "none", "run" or "done"
    stopChan,       \* per order id: its instance's stopped flag, and how often
                    \* its context was cancelled and its stopChan closed
    lastSup,        \* history: the last call on the supervisor or of Stop, its
                    \* error and the state before and after it
    tickChannels,   \* AggregatorManager.Channels: per symbol, whether its channel
                    \* exists and the ticks queued on it
    droppedTicks,   \* AggregatorManager.droppedTicks
    quoteWait,      \* the tick HandleRawQuote is waiting to send, or NoTick
    tickLog,        \* history, per symbol: ticks handed over, enqueued and taken
    nQuotes,        \* number of HandleRawQuote calls
    fnIn,           \* the arguments of the function under study, or NotCalled
    fnOut           \* NotCalled before the call, then its locals while it
                    \* loops and what it returned

aggVars == <<currentCandle, emitted, nTicks, lastCall, winTicks>>
pubVars == <<inflight, delivered>>
bufVars == <<maxSize, db, buffers, fed, lastAdd>>
ringVars == <<cb, addedLog, slotLog, nOps, views, lastMut>>
connVars == <<conn, crashed, lastOp>>
hubVars == <<Clients, Subscriptions, clientSubs, Send, received, snapTasks,
             hubPc, hubEv, allCandles, nEvents, bufVer, warm, lastFan, indPublished,
             connVars>>
writerVars == <<klines, wlog>>
tradeVars == <<users, positions, nextPos, lastTrade>>
eaVars == <<instances, signalChan, handling, nMsgs, lastSig, lastEnq>>
taskVars == <<active, tasks, stopChan>>
supVars == <<lastSup>>
dispVars == <<tickChannels, droppedTicks, quoteWait, tickLog, nQuotes>>
fnVars == <<fnIn, fnOut>>
svcVars == <<writerVars, tradeVars, eaVars, taskVars, supVars, dispVars, fnVars>>
vars == <<aggVars, pubVars, bufVars, ringVars, hubVars, svcVars>>

(***************************************************************************)
(* Bounds of the model.                                                    *)
(***************************************************************************)
Timeframe == 2       \* the period P of the modelled timeframe, in seconds
MaxTime == 7         \* tick timestamps range over 0..MaxTime
MaxPrice == 2        \* tick prices range over 1..MaxPrice
MaxTicks == 3        \* ticks fed to the state machine in SpecAgg
MaxPubTicks == 2     \* ticks fed to the state machine in SpecPub
MaxFeedTicks == 3    \* ticks fed to the state machine in SpecFeed
MaxSize == 2         \* buffer capacities range over 1..MaxSize
MaxDbRows == 2       \* rows of one key in the klines table
MaxRingOps == 4      \* operations on the buffer in SpecRing
MaxReaderWrites == 2  \* writes the reader tasks of SpecCopy make to their slices
MaxWriterEvents == 3  \* bar events the writer receives in SpecWriter
MaxWriterTime == 2    \* their bars start at Timeframe * (1..MaxWriterTime)
MaxOrders == 2        \* order ids 1..MaxOrders
MaxUsers == 1         \* user ids 1..MaxUsers
MaxBalance == 1       \* balances of 0..MaxBalance hundred dollars
MaxRisk == 1          \* risk_percent in 1..MaxRisk
MaxCap == 1           \* max_positions in -1..MaxCap
SigPrice == 10        \* the entry price of every signal
MaxStopDistance == 5  \* stops lie 0, 1 or MaxStopDistance points from the entry
MaxMsgs == 2          \* indicator messages taken from the bus
MaxTrades == 3        \* direct ExecuteTrade calls in SpecTrade
MaxTradeLots == 9     \* their lots, in hundredths
MaxExtraFlat == 1     \* flat closes beyond the first DefaultLength
MaxFlat == 2          \* the flat close is 1..MaxFlat
MaxRising == 2        \* rising closes after the flat ones
MaxStep == 2          \* a rising close exceeds the one before by 1..MaxStep
MaxBars == 5          \* bars of a short-window input
MaxClose == 3         \* closes of a short-window input are 1..MaxClose
MaxLotsBalance == 4   \* balances of SpecLots: 100 * (k^4 - 1) dollars, k up to this
MaxLotsRisk == 3      \* risk percents of SpecLots: 0..MaxLotsRisk
MaxQuotes == 3        \* HandleRawQuote calls in SpecDisp
MaxTakes == 2         \* ticks the symbol workers take in SpecDisp
MaxAdds == 2         \* AddCandle calls in SpecAdd
MaxAddTime == 2      \* bars of SpecAdd start at Timeframe * (1..MaxAddTime)
MaxRingTime == 3     \* bars of SpecRing have start times 1..MaxRingTime
MaxHubEvents == 1    \* bar events the Hub takes from the bus in SpecHub
MaxHubTime == 1      \* number of start times the bars of those events have
MaxIndEvents == 3    \* bar events the Hub takes from the bus in SpecInd
MaxIndClose == 2     \* the bars of SpecInd are flat at a price in 1..MaxIndClose
MaxIndTime == 2      \* number of start times the bars of those events have
MaxWarmRows == 3     \* rows of the klines table in SpecWarm, and their start times
MaxShort == 2        \* the buffers of SpecInd start at most this many bars short of Length
MaxSubscribes == 2   \* subscribe frames read from all clients in SpecHub
SendCap == 1         \* capacity of Client.Send (256 in HandleWebSocket)

TickVolume == 1
LotScale == 100       \* lots are kept in hundredths (roundLots keeps 2 decimals)
MarginPerLot == 1000
PointValue == 10
MinLots == 1          \* 0.01 lots
MaxLots == 1000       \* 10.0 lots
SignalChanCap == 100
TickChanCap == 5000
DefaultLength == 8
DefaultDeviation == 1
DefaultSignal == 1
DefaultMaxPositions == 3
DefaultLine == 1

MaxFirst(a, b) == a
Min(a, b) == IF a < b THEN a ELSE b
Max(a, b) == IF a > b THEN a ELSE b

(***************************************************************************)
(* candle/aggregator.go                                                    *)
(***************************************************************************)
NilCandle == [StartTime |-> -1, Open |-> 0, High |-> 0, Low |-> 0, Close |-> 0, Volume |-> 0]

Ticks == [Timestamp : 0..MaxTime, Price : 1..MaxPrice, Volume : {TickVolume}]

\* mutant of Truncate: the timestamp is used as the window start as it is
TruncateIdentity(t, d) == t

\* time.Time.Truncate(d): round t down to a multiple of d since the zero time
Truncate(t, d) == t - (t % d)

PublishEvent(status, candle) == [Status |-> status, Candle |-> candle]

\* the loop of fillMissingBars: i counts the iterations done, currentTime
\* advances by one period per iteration, acc collects the publish tasks started
RECURSIVE FillLoop(_, _, _, _, _)
FillLoop(i, count, currentTime, lastClose, acc) ==
    IF i < count
    THEN LET t == currentTime + Timeframe
             missingCandle == [StartTime |-> t, Open |-> lastClose, High |-> lastClose,
                               Low |-> lastClose, Close |-> lastClose, Volume |-> 0]
         IN  FillLoop(i + 1, count, t, lastClose,
                      Append(acc, PublishEvent("CLOSE", missingCandle)))
    ELSE acc

\* mutant of fillMissingBars: one bar too many is filled
fillMissingBarsOneMore(cur, count) ==
    IF cur = NilCandle \/ count <= 0
    THEN <<>>
    ELSE FillLoop(0, count + 1, cur.StartTime, cur.Close, <<>>)

fillMissingBars(cur, count) ==
    IF cur = NilCandle \/ count <= 0
    THEN <<>>
    ELSE FillLoop(0, count, cur.StartTime, cur.Close, <<>>)

\* publishCandle(status): the event handed to a new publish task (none when nil)
publishCandle(cur, status) ==
    IF cur = NilCandle THEN <<>> ELSE <<PublishEvent(status, cur)>>

NewCandle(tick, tickWindowStart) ==
    [StartTime |-> tickWindowStart, Open |-> tick.Price, High |-> tick.Price,
     Low |-> tick.Price, Close |-> tick.Price, Volume |-> tick.Volume]

\* mutant of ProcessTickResult: a tick of an earlier window is merged into the bar
ProcessTickResultLateMerges(cur, tick) ==
    LET c == IF cur = NilCandle THEN NewCandle(tick, Truncate(tick.Timestamp, Timeframe))
             ELSE [cur EXCEPT !.Close = tick.Price, !.Volume = cur.Volume + tick.Volume]
    IN  [candle |-> c, out |-> publishCandle(c, "UPDATE")]

\* ProcessTick: the new currentCandle and the events handed to publish tasks, in order
ProcessTickResult(cur, tick) ==
    LET tickWindowStart == Truncate(tick.Timestamp, Timeframe) IN
    IF cur = NilCandle
    THEN LET c == NewCandle(tick, tickWindowStart)
         IN  [candle |-> c, out |-> publishCandle(c, "UPDATE")]
    ELSE IF tickWindowStart > cur.StartTime
    THEN LET missedBars == (tickWindowStart - cur.StartTime) \div Timeframe
             filled == IF missedBars > 1 THEN fillMissingBars(cur, missedBars - 1) ELSE <<>>
             c == NewCandle(tick, tickWindowStart)
         IN  [candle |-> c,
              out |-> filled \o publishCandle(cur, "CLOSE") \o publishCandle(c, "UPDATE")]
    ELSE IF tickWindowStart = cur.StartTime
    THEN LET c == [cur EXCEPT !.High = Max(cur.High, tick.Price),
                              !.Low = Min(cur.Low, tick.Price),
                              !.Close = tick.Price,
                              !.Volume = cur.Volume + tick.Volume]
         IN  [candle |-> c, out |-> publishCandle(c, "UPDATE")]
    ELSE [candle |-> cur, out |-> <<>>]

NoCall == [tick |-> [Timestamp |-> 0, Price |-> 0, Volume |-> 0], before |-> NilCandle, from |-> 0]

AggInit ==
    /\ currentCandle = NilCandle
    /\ emitted = <<>>
    /\ nTicks = 0
    /\ lastCall = NoCall
    /\ winTicks = <<>>

PubIdle ==
    /\ inflight = {}
    /\ delivered = <<>>

\* ProcessTick under t.lock: every event is handed to a publish task of its
\* own ("go func() { ... Publish ... }()"), which has not run when the call returns
ProcessTick(tick, limit) ==
    /\ nTicks < limit
    /\ LET r == ProcessTickResult(currentCandle, tick) IN
        /\ currentCandle' = r.candle
        /\ emitted' = emitted \o r.out
        /\ inflight' = inflight \cup ((Len(emitted) + 1)..(Len(emitted) + Len(r.out)))
        /\ lastCall' = [tick |-> tick, before |-> currentCandle, from |-> Len(emitted)]
        /\ winTicks' = LET w == tick.Timestamp - (tick.Timestamp % Timeframe) IN
                       IF currentCandle = NilCandle \/ w > currentCandle.StartTime THEN <<tick>>
                       ELSE IF w = currentCandle.StartTime THEN Append(winTicks, tick)
                       ELSE winTicks
    /\ nTicks' = nTicks + 1

\* one publish task runs: redisClient.Publish succeeds and the bus takes the event
Publish(i) ==
    /\ i \in inflight
    /\ inflight' = inflight \ {i}
    /\ delivered' = Append(delivered, i)
    /\ UNCHANGED <<aggVars, bufVars, ringVars, hubVars, svcVars>>

\* one publish task runs and Publish returns an error, which is logged
PublishFails(i) ==
    /\ i \in inflight
    /\ inflight' = inflight \ {i}
    /\ UNCHANGED <<delivered, aggVars, bufVars, ringVars, hubVars, svcVars>>


(***************************************************************************)
(* api/ws/hub.go: CandleBuffer and MultiPeriodManager                      *)
(***************************************************************************)
Keys == {"XAUUSD:M1"}

CandleData(t, o, h, l, c, v) ==
    [Time |-> t, Open |-> o, High |-> h, Low |-> l, Close |-> c, Volume |-> v]

\* handleKlineMessage, candle service format: the Candle of an event as CandleData
ToCandleData(c) == CandleData(c.StartTime, c.Open, c.High, c.Low, c.Close, c.Volume)

\* mutant of Add: the oldest bar is dropped as soon as the buffer is full
AddEvictsEarly(candles, candle, n) ==
    LET a == Append(candles, candle) IN
    IF Len(a) >= n THEN Tail(a) ELSE a

\* CandleBuffer.Add on a buffer of capacity n
Add(candles, candle, n) ==
    LET a == Append(candles, candle) IN
    IF Len(a) > n THEN Tail(a) ELSE a

\* CandleBuffer.Update
Update(candles, candle) ==
    IF Len(candles) > 0
    THEN [candles EXCEPT ![Len(candles)] = candle]
    ELSE Append(candles, candle)

\* mutant of OHLCValid: the checks of the low are left out
OHLCValidNoLow(c) ==
    /\ ~(c.High < c.Low)
    /\ ~(c.High < c.Open \/ c.High < c.Close)

\* the three checks AddCandle and loadFromDB make on a bar
OHLCValid(c) ==
    /\ ~(c.High < c.Low)
    /\ ~(c.High < c.Open \/ c.High < c.Close)
    /\ ~(c.Low > c.Open \/ c.Low > c.Close)

\* time.Time.IsZero: the zero time is second 0
IsZero(t) == t = 0

\* mutant of LoadLoop: the loop ends at the first row it does not keep
RECURSIVE LoadLoopStops(_, _, _, _)
LoadLoopStops(dbCandles, i, lastTime, acc) ==
    IF i < 1 THEN acc
    ELSE LET c == dbCandles[i] IN
         IF ~OHLCValid(c) \/ (~IsZero(lastTime) /\ ~(c.Time > lastTime))
         THEN acc
         ELSE LoadLoopStops(dbCandles, i - 1, c.Time, Append(acc, c))

\* the loop of loadFromDB over the query result, from its last row (the
\* oldest) to its first: i is the row looked at, lastTime the time of the last
\* row kept (the zero time when none), acc the candles kept
RECURSIVE LoadLoop(_, _, _, _)
LoadLoop(dbCandles, i, lastTime, acc) ==
    IF i < 1 THEN acc
    ELSE LET c == dbCandles[i] IN
         IF ~OHLCValid(c)
         THEN LoadLoop(dbCandles, i - 1, lastTime, acc)
         ELSE IF ~IsZero(lastTime) /\ ~(c.Time > lastTime)
         THEN LoadLoop(dbCandles, i - 1, lastTime, acc)
         ELSE LoadLoop(dbCandles, i - 1, c.Time, Append(acc, c))

\* SELECT ... ORDER BY start_time DESC LIMIT n on the rows of one key
QueryResult(rows, n) == SubSeq(rows, 1, Min(Len(rows), n))

\* loadFromDB: the candles the buffer holds afterwards
loadFromDB(rows, n) ==
    LET dbCandles == QueryResult(rows, n)
    IN  LoadLoop(dbCandles, Len(dbCandles), 0, <<>>)

\* AddCandle after GetOrCreateBuffer: validation, then Add or Update
AddCandleResult(candles, candle, isNew, n) ==
    IF ~OHLCValid(candle) THEN candles
    ELSE IF isNew THEN Add(candles, candle, n)
    ELSE Update(candles, candle)

\* GetOrCreateBuffer: the candles of the buffer of key when it returns
GetOrCreateResult(key) ==
    IF buffers[key].exists THEN buffers[key].candles
    ELSE IF db.present THEN loadFromDB(db.rows[key], maxSize)
    ELSE <<>>

\* MultiPeriodManager.AddCandle(key, candle, isNew), run by one task alone
AddCandle(key, candle, isNew) ==
    buffers' = [buffers EXCEPT ![key] =
                  [exists |-> TRUE,
                   candles |-> AddCandleResult(GetOrCreateResult(key), candle, isNew, maxSize)]]

\* MultiPeriodManager.GetCandles
GetCandles(key) == IF buffers[key].exists THEN buffers[key].candles ELSE <<>>

\* the rows a klines table can hold for one key, newest first: start_time is
\* unique per key and the query orders by it
DbRow(t, ok) == CandleData(t, 1, IF ok THEN 1 ELSE 0, 1, 1, 1)
DbRowSet == {DbRow(t * Timeframe, ok) : t \in 1..MaxDbRows, ok \in BOOLEAN}
DbRowSeqs ==
    {r \in UNION {[1..n -> DbRowSet] : n \in 0..MaxDbRows} :
        \A i \in 1..(Len(r) - 1) : r[i].Time > r[i + 1].Time}
DbChoices ==
    {[present |-> FALSE, rows |-> [k \in Keys |-> <<>>]]}
    \cup {[present |-> TRUE, rows |-> rs] : rs \in [Keys -> DbRowSeqs]}

NoAdd == [n |-> 0, key |-> "", candle |-> CandleData(0, 0, 0, 0, 0, 0), isNew |-> FALSE,
          before |-> [exists |-> FALSE, candles |-> <<>>]]

\* NewMultiPeriodManager(maxSize, db)
BufInit ==
    /\ maxSize \in 1..MaxSize
    /\ db \in DbChoices
    /\ buffers = [k \in Keys |-> [exists |-> FALSE, candles |-> <<>>]]
    /\ fed = 0
    /\ lastAdd = NoAdd

BufIdle ==
    /\ maxSize = 1
    /\ db = [present |-> FALSE, rows |-> [k \in Keys |-> <<>>]]
    /\ buffers = [k \in Keys |-> [exists |-> FALSE, candles |-> <<>>]]
    /\ fed = 0
    /\ lastAdd = NoAdd

ReaderTasks == {"t1", "t2"}
NoView == [arr |-> "none", data |-> <<>>]

\* mutant of GetAll: the internal slice itself is returned
GetAllAliased(candles) == [arr |-> "internal", data |-> candles]

\* CandleBuffer.GetAll: a slice over a new array ("own") holding a copy of the bars
GetAll(candles) == [arr |-> "own", data |-> candles]

\* GetCandles on a key with a buffer: buffer.GetAll()
GetCandlesView(candles) == GetAll(candles)

RingIdle ==
    /\ cb = <<>>
    /\ addedLog = <<>>
    /\ slotLog = <<>>
    /\ nOps = 0
    /\ views = [t \in ReaderTasks |-> NoView]
    /\ lastMut = [n |-> 0, before |-> <<>>, after |-> <<>>]


(***************************************************************************)
(* api/ws/indicators: the green-arrow indicator over a bar sequence.       *)
(* Closes are integers.  A level (a band, a stop, a sentinel) is kept      *)
(* exactly as [s, v, sg], standing for (s + sg * sqrt(v)) / Length, and    *)
(* compared exactly.  MoneyRisk is 1.0, its default, so riskFactor is 0    *)
(* and a stop is its band.                                                 *)
(***************************************************************************)
Level(s, v, sg) == [s |-> s, v |-> v, sg |-> IF v = 0 THEN 1 ELSE sg]
Whole(k, length) == Level(k * length, 0, 1)
EMPTY_VALUE == [empty |-> TRUE]

\* sqrt(A) + sqrt(B) > a
RootSumAbove(a, A, B) ==
    LET c == a * a - A - B IN
    a < 0 \/ c < 0 \/ 4 * A * B > c * c

\* sqrt(A) + sqrt(B) < a
RootSumBelow(a, A, B) ==
    LET c == a * a - A - B IN
    a > 0 /\ c > 0 /\ 4 * A * B < c * c

\* a < sqrt(P) - sqrt(N)
RootDiffAbove(a, P, N) ==
    LET c == P - N - a * a IN
    IF a < 0 /\ a * a > N THEN TRUE
    ELSE IF a >= 0 THEN c > 0 /\ 4 * a * a * N < c * c
    ELSE c > 0 \/ 4 * a * a * N > c * c

\* x < y on levels of one Length
Less(x, y) ==
    LET a == x.s - y.s IN
    IF y.sg = 1 /\ x.sg = -1 THEN RootSumAbove(a, y.v, x.v)
    ELSE IF y.sg = -1 /\ x.sg = 1 THEN RootSumBelow(-a, y.v, x.v)
    ELSE IF y.sg = 1 THEN RootDiffAbove(a, y.v, x.v)
    ELSE RootDiffAbove(a, x.v, y.v)
Same(x, y) == ~Less(x, y) /\ ~Less(y, x)

\* the close of candles[i], the slice indexed from 0
Close(candles, i) == candles[i + 1]

\* CalculateSMA and CalculateStdDev over the window that ends at bar i: the
\* sum of the closes, and Length * (sum of squares) - sum^2, which is
\* (Length * stdDev)^2
RECURSIVE WindowSum(_, _, _)
WindowSum(candles, i, period) ==
    IF period = 0 THEN 0
    ELSE Close(candles, i) + WindowSum(candles, i - 1, period - 1)
RECURSIVE WindowSquares(_, _, _)
WindowSquares(candles, i, period) ==
    IF period = 0 THEN 0
    ELSE Close(candles, i) * Close(candles, i) + WindowSquares(candles, i - 1, period - 1)

\* CalculateBollingerBandsSeries at bar i >= period - 1
CalculateBollingerBands(candles, i, period, deviation) ==
    LET sum == WindowSum(candles, i, period)
        spread == period * WindowSquares(candles, i, period) - sum * sum
    IN  [Upper |-> Level(sum, deviation * deviation * spread, 1),
         Lower |-> Level(sum, deviation * deviation * spread, -1)]

\* the results' initial value
NewResult(length) ==
    [UpStop |-> Whole(-1, length), DownStop |-> Whole(-1, length),
     UpSignal |-> Whole(-1, length), DownSignal |-> Whole(-1, length),
     UpLine |-> EMPTY_VALUE, DownLine |-> EMPTY_VALUE, Trend |-> 0, IsSignal |-> FALSE]

\* isNewSignal of updateUpTrendBuffers and updateDownTrendBuffers; prevStop
\* is the stop field of results[index-1], read only when index is not
\* Length - 1
IsNewSignal(index, params, prevStop) ==
    /\ params.Signal > 0
    /\ \/ index = params.Length - 1
       \/ Same(prevStop, Whole(-1, params.Length))

\* mutant of updateUpTrendBuffers: the stop is hidden in every signal mode
updateUpTrendHidesStop(result, index, stopLevel, params, results) ==
    LET isNewSignal ==
            IsNewSignal(index, params,
                        IF index = params.Length - 1 THEN Whole(-1, params.Length)
                        ELSE results[index - 1].UpStop)
    IN  [result EXCEPT
            !.IsSignal = isNewSignal,
            !.UpSignal = IF isNewSignal THEN stopLevel ELSE Whole(-1, params.Length),
            !.UpStop = Whole(0, params.Length),
            !.UpLine = IF params.Line > 0 THEN stopLevel ELSE @]

updateUpTrendBuffers(result, index, stopLevel, params, results) ==
    LET isNewSignal ==
            IsNewSignal(index, params,
                        IF index = params.Length - 1 THEN Whole(-1, params.Length)
                        ELSE results[index - 1].UpStop)
    IN  [result EXCEPT
            !.IsSignal = isNewSignal,
            !.UpSignal = IF isNewSignal THEN stopLevel ELSE Whole(-1, params.Length),
            !.UpStop = IF params.Signal = 2 THEN Whole(0, params.Length) ELSE stopLevel,
            !.UpLine = IF params.Line > 0 THEN stopLevel ELSE @]

updateDownTrendBuffers(result, index, stopLevel, params, results) ==
    LET isNewSignal ==
            IsNewSignal(index, params,
                        IF index = params.Length - 1 THEN Whole(-1, params.Length)
                        ELSE results[index - 1].DownStop)
    IN  [result EXCEPT
            !.IsSignal = isNewSignal,
            !.DownSignal = IF isNewSignal THEN stopLevel ELSE Whole(-1, params.Length),
            !.DownStop = IF params.Signal = 2 THEN Whole(0, params.Length) ELSE stopLevel,
            !.DownLine = IF params.Line > 0 THEN stopLevel ELSE @]

clearUpTrendBuffers(result, length) ==
    [result EXCEPT !.UpSignal = Whole(-1, length), !.UpStop = Whole(-1, length),
                   !.UpLine = EMPTY_VALUE]
clearDownTrendBuffers(result, length) ==
    [result EXCEPT !.DownSignal = Whole(-1, length), !.DownStop = Whole(-1, length),
                   !.DownLine = EMPTY_VALUE]

updateBuffers(result, index, upperStop, lowerStop, trend, params, results) ==
    IF trend > 0
    THEN clearDownTrendBuffers(
             updateUpTrendBuffers(result, index, lowerStop, params, results), params.Length)
    ELSE IF trend < 0
    THEN clearUpTrendBuffers(
             updateDownTrendBuffers(result, index, upperStop, params, results), params.Length)
    ELSE result

\* NewIndicatorCalculator, NewGreenArrowEA: the default parameters
DefaultParams ==
    [Length |-> DefaultLength, Deviation |-> DefaultDeviation, Signal |-> DefaultSignal,
     Line |-> DefaultLine]

\* CalculateGreenArrow up to its main loop: the locals, or the empty result
\* for fewer than Length closes
ArrowStart(closes, params) ==
    LET n == Len(closes)
        length == params.Length
        zeros == [i \in 0..(n - 1) |-> Whole(0, length)]
    IN  IF n < length
        THEN [done |-> TRUE, i |-> n, trend |-> 0, results |-> <<>>]
        ELSE [done |-> FALSE, i |-> length - 1, trend |-> 0,
              upperBand |-> zeros, lowerBand |-> zeros,
              upperStop |-> zeros, lowerStop |-> zeros,
              results |-> [i \in 0..(n - 1) |-> NewResult(length)]]

\* one pass of the main loop, for bar frame.i
ScanStep(frame, closes, params) ==
    LET length == params.Length
        i == frame.i
        close == Whole(Close(closes, i), length)
        bb == CalculateBollingerBands(closes, i, length, params.Deviation)
        rising == IF i > 0 /\ Less(frame.upperBand[i - 1], close) THEN 1 ELSE frame.trend
        trend == IF i > 0 /\ Less(close, frame.lowerBand[i - 1]) THEN -1 ELSE rising
        lowerBand == IF i > 0 /\ trend > 0 /\ Less(bb.Lower, frame.lowerBand[i - 1])
                     THEN frame.lowerBand[i - 1] ELSE bb.Lower
        upperBand == IF i > 0 /\ trend < 0 /\ Less(frame.upperBand[i - 1], bb.Upper)
                     THEN frame.upperBand[i - 1] ELSE bb.Upper
        lowerStop == IF i > 0 /\ trend > 0 /\ Less(lowerBand, frame.lowerStop[i - 1])
                     THEN frame.lowerStop[i - 1] ELSE lowerBand
        upperStop == IF i > 0 /\ trend < 0 /\ Less(frame.upperStop[i - 1], upperBand)
                     THEN frame.upperStop[i - 1] ELSE upperBand
        result == updateBuffers([frame.results[i] EXCEPT !.Trend = trend], i,
                                upperStop, lowerStop, trend, params, frame.results)
    IN  [done |-> i + 1 >= Len(closes), i |-> i + 1, trend |-> trend,
         upperBand |-> [frame.upperBand EXCEPT ![i] = upperBand],
         lowerBand |-> [frame.lowerBand EXCEPT ![i] = lowerBand],
         upperStop |-> [frame.upperStop EXCEPT ![i] = upperStop],
         lowerStop |-> [frame.lowerStop EXCEPT ![i] = lowerStop],
         results |-> [frame.results EXCEPT ![i] = result]]

\* the main loop run to its end, and what CalculateGreenArrow returns: the
\* samples of bars 0 .. n-1, or none
RECURSIVE ScanAll(_, _, _)
ScanAll(frame, closes, params) ==
    IF frame.done THEN frame ELSE ScanAll(ScanStep(frame, closes, params), closes, params)
GreenArrowResults(closes, params) == ScanAll(ArrowStart(closes, params), closes, params).results

(***************************************************************************)
(* api/ws/hub.go, api/ws/client.go: Hub and Client                         *)
(***************************************************************************)
ClientIds == {"c1", "c2"}

\* ClientMessage.ToChannelName: kline:{symbol}:{timeframe}, the key being symbol:timeframe
ChannelOf(key) == "kline:" \o key
Channels == {ChannelOf(k) : k \in Keys}
\* sendSnapshot, lines 330-338: the key of a channel
KeyOf(channel) == CHOOSE k \in Keys : ChannelOf(k) = channel

EmptyMap == [x \in {} |-> {}]

\* Subscribe, lines 255-260
SubscribeMap(subs, client, channel) ==
    IF channel \in DOMAIN subs
    THEN [subs EXCEPT ![channel] = @ \cup {client}]
    ELSE [x \in DOMAIN subs \cup {channel} |-> IF x = channel THEN {client} ELSE subs[x]]

\* Unsubscribe, lines 269-276
UnsubscribeMap(subs, client, channel) ==
    IF channel \in DOMAIN subs
    THEN LET clients == subs[channel] \ {client} IN
         IF clients = {}
         THEN [x \in DOMAIN subs \ {channel} |-> subs[x]]
         ELSE [subs EXCEPT ![channel] = clients]
    ELSE subs

cleanUpSubscriptionsKeepsEmpty(subs, client, own) ==
    [x \in DOMAIN subs |-> IF x \in own THEN subs[x] \ {client} ELSE subs[x]]

\* cleanUpSubscriptions, lines 280-291: Unsubscribe's steps for every channel of
\* the client's own Subscriptions
RECURSIVE cleanUpSubscriptions(_, _, _)
cleanUpSubscriptions(subs, client, own) ==
    IF own = {} THEN subs
    ELSE LET channel == CHOOSE x \in own : TRUE
         IN  cleanUpSubscriptions(UnsubscribeMap(subs, client, channel), client,
                                  own \ {channel})

ForwardTargetsAll(subs, channel) == ClientIds

\* forwardMessage, line 243: the clients the payload is offered to
ForwardTargets(subs, channel) ==
    IF channel \in DOMAIN subs THEN subs[channel] ELSE {}

\* "select { case client.Send <- payload: default: }": whether the send is taken
CanSend(queue) == Len(queue) < SendCap

SnapshotMessage(channel, data) == [type |-> "snapshot", channel |-> channel, data |-> data]

\* the bar events the bus can hand to the Hub for one key
\* live bars start at or after the newest bar the table can hold; one has high < low
HubCandles ==
    {[StartTime |-> (MaxDbRows - 1 + t) * Timeframe,
      Open |-> 1, High |-> 1, Low |-> 1, Close |-> 1, Volume |-> 1] : t \in 1..MaxHubTime}
    \cup {[StartTime |-> MaxDbRows * Timeframe,
           Open |-> 1, High |-> 0, Low |-> 1, Close |-> 1, Volume |-> 1]}
HubEvents == [key : Keys, Status : {"UPDATE", "CLOSE"}, Candle : HubCandles]
NoEvent == [key |-> "", Status |-> "", Candle |-> NilCandle]

NoTask == [client |-> "", channel |-> "", pc |-> "done", candles |-> <<>>, ver |-> 0, warm |-> "none"]
NoFan == [ev |-> 0, channel |-> "", subs |-> {}, full |-> {}, data |-> <<>>, sent |-> FALSE]

\* NewHub: no client, no subscription, nothing queued
HubInit ==
    /\ Clients = {}
    /\ Subscriptions = EmptyMap
    /\ clientSubs = [c \in ClientIds |-> {}]
    /\ Send = [c \in ClientIds |-> <<>>]
    /\ received = [c \in ClientIds |-> <<>>]
    /\ snapTasks = <<>>
    /\ hubPc = "idle"
    /\ hubEv = NoEvent
    /\ allCandles = <<>>
    /\ nEvents = 0
    /\ bufVer = [k \in Keys |-> 0]
    /\ warm = [k \in Keys |-> "none"]
    /\ lastFan = NoFan
    /\ indPublished = <<>>
    /\ conn = [c \in ClientIds |-> "new"]
    /\ crashed = FALSE
    /\ lastOp = [c \in ClientIds |-> [x \in Channels |-> "none"]]

IsSubscribed(client, channel) ==
    channel \in DOMAIN Subscriptions /\ client \in Subscriptions[channel]

\* Hub.Run, case Register (HandleWebSocket made the client and its queue)
HubRegister(client) ==
    /\ ~crashed
    /\ hubPc = "idle"
    /\ conn[client] = "new"
    /\ Clients' = Clients \cup {client}
    /\ conn' = [conn EXCEPT ![client] = "open"]
    /\ UNCHANGED <<Subscriptions, clientSubs, Send, received, snapTasks, hubPc, hubEv,
                   allCandles, nEvents, bufVer, warm, lastFan, indPublished, crashed, lastOp>>
    /\ UNCHANGED <<aggVars, pubVars, bufVars, ringVars, svcVars>>

\* ReadPump, case "subscribe": Hub.Subscribe, which starts a sendSnapshot task,
\* then c.Subscriptions[channel] = true
ClientSubscribe(client, channel) ==
    /\ ~crashed
    /\ conn[client] = "open"
    /\ Len(snapTasks) < MaxSubscribes
    /\ Subscriptions' = SubscribeMap(Subscriptions, client, channel)
    /\ snapTasks' = Append(snapTasks, [client |-> client, channel |-> channel, pc |-> "start",
                                       candles |-> <<>>, ver |-> 0, warm |-> "none"])
    /\ clientSubs' = [clientSubs EXCEPT ![client] = @ \cup {channel}]
    /\ lastOp' = [lastOp EXCEPT ![client][channel] = "subscribe"]
    /\ UNCHANGED <<Clients, Send, received, hubPc, hubEv, allCandles, nEvents, bufVer, warm,
                   lastFan, indPublished, conn, crashed>>
    /\ UNCHANGED <<aggVars, pubVars, bufVars, ringVars, svcVars>>

\* ReadPump, case "unsubscribe": Hub.Unsubscribe, then delete(c.Subscriptions, channel)
\* (for a channel the client is not subscribed to, both leave the maps as they are)
ClientUnsubscribe(client, channel) ==
    /\ ~crashed
    /\ conn[client] = "open"
    /\ Subscriptions' = UnsubscribeMap(Subscriptions, client, channel)
    /\ clientSubs' = [clientSubs EXCEPT ![client] = @ \ {channel}]
    /\ lastOp' = [lastOp EXCEPT ![client][channel] = "unsubscribe"]
    /\ UNCHANGED <<Clients, Send, received, snapTasks, hubPc, hubEv, allCandles, nEvents,
                   bufVer, warm, lastFan, indPublished, conn, crashed>>
    /\ UNCHANGED <<aggVars, pubVars, bufVars, ringVars, svcVars>>

\* ReadPump: ReadMessage fails (the peer is gone), the loop ends and the deferred
\* function offers the client on Hub.Unregister
ClientDisconnect(client) ==
    /\ ~crashed
    /\ conn[client] = "open"
    /\ conn' = [conn EXCEPT ![client] = "exiting"]
    /\ UNCHANGED <<Clients, Subscriptions, clientSubs, Send, received, snapTasks, hubPc, hubEv,
                   allCandles, nEvents, bufVer, warm, lastFan, indPublished, crashed, lastOp>>
    /\ UNCHANGED <<aggVars, pubVars, bufVars, ringVars, svcVars>>

\* Hub.Run, case Unregister: the client leaves Clients, its Send is closed and
\* cleanUpSubscriptions takes it out of every channel of its own Subscriptions
HubUnregister(client) ==
    /\ ~crashed
    /\ hubPc = "idle"
    /\ conn[client] = "exiting"
    /\ IF client \in Clients
       THEN /\ Clients' = Clients \ {client}
            /\ Subscriptions' = cleanUpSubscriptions(Subscriptions, client, clientSubs[client])
            /\ conn' = [conn EXCEPT ![client] = "gone"]
       ELSE /\ conn' = [conn EXCEPT ![client] = "gone"]
            /\ UNCHANGED <<Clients, Subscriptions>>
    /\ UNCHANGED <<clientSubs, Send, received, snapTasks, hubPc, hubEv, allCandles, nEvents,
                   bufVer, warm, lastFan, indPublished, crashed, lastOp>>
    /\ UNCHANGED <<aggVars, pubVars, bufVars, ringVars, svcVars>>

\* WritePump: one payload taken from Send and written to the connection
ClientWrite(client) ==
    /\ ~crashed
    /\ Send[client] # <<>>
    /\ Send' = [Send EXCEPT ![client] = Tail(@)]
    /\ UNCHANGED <<Clients, Subscriptions, clientSubs, received, snapTasks, hubPc, hubEv,
                   allCandles, nEvents, bufVer, warm, lastFan, indPublished>>
    /\ UNCHANGED <<aggVars, pubVars, bufVars, ringVars, connVars, svcVars>>

\* what the history keeps of one message put on a client's Send
Enqueued(payload, kind, ev, task, key, client) ==
    [payload |-> payload, kind |-> kind, ev |-> ev, task |-> task,
     subscribed |-> IsSubscribed(client, payload.channel),
     first |-> \A c \in ClientIds : received[c] = <<>>,
     ver |-> 0, warm |-> "none"]

\* handleKlineMessage up to the first half of GetOrCreateBuffer (lines 88-131 and
\* 2016-2036): the event is parsed and the buffer of its key is looked up; a
\* missing buffer is put in the map, empty, before it is loaded
HubTake(ev, limit) ==
    /\ ~crashed
    /\ hubPc = "idle"
    /\ nEvents < limit
    /\ hubEv' = ev
    /\ nEvents' = nEvents + 1
    /\ IF buffers[ev.key].exists
       THEN /\ hubPc' = "add"
            /\ UNCHANGED <<buffers, warm>>
       ELSE /\ buffers' = [buffers EXCEPT ![ev.key] = [exists |-> TRUE, candles |-> <<>>]]
            /\ hubPc' = IF db.present THEN "load" ELSE "add"
            /\ warm' = [warm EXCEPT ![ev.key] = IF db.present THEN "loading" ELSE "done"]
    /\ UNCHANGED <<Clients, Subscriptions, clientSubs, Send, received, snapTasks, allCandles,
                   bufVer, lastFan, indPublished>>
    /\ UNCHANGED <<maxSize, db, fed, lastAdd, aggVars, pubVars, ringVars, connVars, svcVars>>

HubTakeEvent(ev) == HubTake(ev, MaxHubEvents)

\* GetOrCreateBuffer, second half: loadFromDB fills the buffer under the buffer's lock
HubLoadFromDB ==
    /\ ~crashed
    /\ hubPc = "load"
    /\ buffers' = [buffers EXCEPT ![hubEv.key].candles = loadFromDB(db.rows[hubEv.key], maxSize)]
    /\ warm' = [warm EXCEPT ![hubEv.key] = "done"]
    /\ hubPc' = "add"
    /\ UNCHANGED <<Clients, Subscriptions, clientSubs, Send, received, snapTasks, hubEv,
                   allCandles, nEvents, bufVer, lastFan, indPublished>>
    /\ UNCHANGED <<maxSize, db, fed, lastAdd, aggVars, pubVars, ringVars, connVars, svcVars>>

\* handleKlineMessage, lines 132-140: the rest of AddCandle, then GetCandles; with
\* an empty buffer the handler returns and nothing is forwarded
HubAddCandle ==
    /\ ~crashed
    /\ hubPc = "add"
    /\ LET key == hubEv.key
           old == buffers[key].candles
           new == AddCandleResult(old, ToCandleData(hubEv.Candle), hubEv.Status = "CLOSE", maxSize)
           channel == ChannelOf(key)
       IN  /\ buffers' = [buffers EXCEPT ![key].candles = new]
           /\ bufVer' = [bufVer EXCEPT ![key] = IF new = old THEN @ ELSE @ + 1]
           /\ IF new = <<>>
              THEN /\ hubPc' = "idle"
                   /\ hubEv' = NoEvent
                   /\ allCandles' = <<>>
                   /\ lastFan' = [ev |-> nEvents, channel |-> channel,
                                  subs |-> {c \in ClientIds : IsSubscribed(c, channel)},
                                  full |-> {c \in ClientIds : Len(Send[c]) >= SendCap},
                                  data |-> <<>>, sent |-> FALSE]
              ELSE /\ hubPc' = "forward"
                   /\ allCandles' = new
                   /\ UNCHANGED <<hubEv, lastFan>>
    /\ UNCHANGED <<Clients, Subscriptions, clientSubs, Send, received, snapTasks, nEvents, warm,
                   indPublished>>
    /\ UNCHANGED <<maxSize, db, fed, lastAdd, aggVars, pubVars, ringVars, connVars, svcVars>>

\* IndicatorCalculator.Calculate: the indicator over the closes of the bars,
\* with the parameters of NewIndicatorCalculator (nothing calls
\* UpdateIndicatorParams); no sample for no bar
Calculate(candles) ==
    IF Len(candles) = 0 THEN <<>>
    ELSE GreenArrowResults([i \in 1..Len(candles) |-> candles[i].Close], DefaultParams)

\* publishIndicatorToRedis: the channel of a key, and the event published
IndicatorChannelOf(key) == "indicator:" \o key \o ":green_arrow"
\* (ev and bar are history: the number of the bar event, and the start time of
\* the bar the sample is of)
IndicatorEvent(key, indicator, ev, bar) ==
    [channel |-> IndicatorChannelOf(key), data |-> indicator, ev |-> ev, bar |-> bar]

\* mutant of PublishLast: the first sample is published, and the empty
\* sample when there is none
PublishFirst(published, key, candles, ev) ==
    LET indicatorResults == Calculate(candles) IN
    Append(published,
           IndicatorEvent(key, IF DOMAIN indicatorResults # {} THEN indicatorResults[0]
                               ELSE NewResult(DefaultLength), ev, 0))

\* handleKlineMessage, lines 162-167: the last sample over the buffer read
\* again is published, if there is any sample
PublishLast(published, key, candles, ev) ==
    LET indicatorResults == Calculate(candles) IN
    IF DOMAIN indicatorResults # {}
    THEN Append(published, IndicatorEvent(key, indicatorResults[Len(candles) - 1], ev,
                                          candles[Len(candles)].Time))
    ELSE published

\* handleKlineMessage, lines 142-167: the snapshot payload is built and
\* forwardMessage offers it to every client subscribed to the channel; then the
\* indicator is computed over the buffer and its last sample is published
HubForward ==
    /\ ~crashed
    /\ hubPc = "forward"
    /\ \A c \in ForwardTargets(Subscriptions, ChannelOf(hubEv.key)) : conn[c] # "gone"
    /\ LET key == hubEv.key
           channel == ChannelOf(key)
           payload == SnapshotMessage(channel, allCandles)
           takers == {c \in ForwardTargets(Subscriptions, channel) : CanSend(Send[c])}
       IN  /\ Send' = [c \in ClientIds |->
                          IF c \in takers THEN Append(Send[c], payload) ELSE Send[c]]
           /\ received' = [c \in ClientIds |->
                          IF c \in takers
                          THEN Append(received[c],
                                      [Enqueued(payload, "fanout", nEvents, 0, key, c)
                                           EXCEPT !.ver = bufVer[key], !.warm = warm[key]])
                          ELSE received[c]]
           /\ lastFan' = [ev |-> nEvents, channel |-> channel,
                          subs |-> {c \in ClientIds : IsSubscribed(c, channel)},
                          full |-> {c \in ClientIds : Len(Send[c]) >= SendCap},
                          data |-> buffers[key].candles, sent |-> TRUE]
           /\ indPublished' = PublishLast(indPublished, key, buffers[key].candles, nEvents)
    /\ hubPc' = "idle"
    /\ hubEv' = NoEvent
    /\ allCandles' = <<>>
    /\ UNCHANGED <<Clients, Subscriptions, clientSubs, snapTasks, nEvents, bufVer, warm>>
    /\ UNCHANGED <<aggVars, pubVars, bufVars, ringVars, connVars, svcVars>>

\* sendSnapshot, lines 328-346: the channel is split and the buffer is read; with
\* no bar the task ends
SnapRead(i) ==
    /\ ~crashed
    /\ snapTasks[i].pc = "start"
    /\ LET key == KeyOf(snapTasks[i].channel)
           candles == GetCandles(key)
       IN  snapTasks' = [snapTasks EXCEPT ![i] =
                           IF candles = <<>> THEN NoTask
                           ELSE [@ EXCEPT !.pc = "send", !.candles = candles,
                                          !.ver = bufVer[key], !.warm = warm[key]]]
    /\ UNCHANGED <<Clients, Subscriptions, clientSubs, Send, received, hubPc, hubEv,
                   allCandles, nEvents, bufVer, warm, lastFan, indPublished>>
    /\ UNCHANGED <<aggVars, pubVars, bufVars, ringVars, connVars, svcVars>>

\* sendSnapshot, lines 348-377: the payload is built and offered to the client
SnapSend(i) ==
    /\ ~crashed
    /\ snapTasks[i].pc = "send"
    /\ conn[snapTasks[i].client] # "gone"
    /\ LET t == snapTasks[i]
           payload == SnapshotMessage(t.channel, t.candles)
       IN  IF CanSend(Send[t.client])
           THEN /\ Send' = [Send EXCEPT ![t.client] = Append(@, payload)]
                /\ received' = [received EXCEPT ![t.client] =
                                  Append(@, [Enqueued(payload, "subscribe", 0, i,
                                                      KeyOf(t.channel), t.client)
                                                 EXCEPT !.ver = t.ver, !.warm = t.warm])]
           ELSE UNCHANGED <<Send, received>>
    /\ snapTasks' = [snapTasks EXCEPT ![i] = NoTask]
    /\ UNCHANGED <<Clients, Subscriptions, clientSubs, hubPc, hubEv, allCandles, nEvents,
                   bufVer, warm, lastFan, indPublished>>
    /\ UNCHANGED <<aggVars, pubVars, bufVars, ringVars, connVars, svcVars>>

\* forwardMessage or sendSnapshot offering a payload to a Send that Unregister
\* has closed: the send panics and the process ends
SendOnClosed ==
    /\ ~crashed
    /\ \/ /\ hubPc = "forward"
          /\ \E c \in ForwardTargets(Subscriptions, ChannelOf(hubEv.key)) : conn[c] = "gone"
       \/ \E i \in 1..Len(snapTasks) :
             snapTasks[i].pc = "send" /\ conn[snapTasks[i].client] = "gone"
    /\ crashed' = TRUE
    /\ UNCHANGED <<Clients, Subscriptions, clientSubs, Send, received, snapTasks, hubPc, hubEv,
                   allCandles, nEvents, bufVer, warm, lastFan, indPublished, conn, lastOp>>
    /\ UNCHANGED <<aggVars, pubVars, bufVars, ringVars, svcVars>>

(***************************************************************************)
(* unnamed/part_015: DBWriterService                                       *)
(***************************************************************************)
WriterSymbols == {"XAUUSD", "EURUSD"}

\* the bar events the bus can hand to the writer (flat bars at price p)
WriterCandles ==
    {[Symbol |-> sym, Timeframe |-> "M1", StartTime |-> t * Timeframe,
      Open |-> p, High |-> p, Low |-> p, Close |-> p, Volume |-> TickVolume] :
        sym \in WriterSymbols, t \in 1..MaxWriterTime, p \in 1..MaxPrice}
WriterEvents == [Status : {"UPDATE", "CLOSE"}, Candle : WriterCandles]

\* the columns of ON CONFLICT (symbol, timeframe, start_time)
ConflictKey(c) == <<c.Symbol, c.Timeframe, c.StartTime>>

\* mutant of insertKlineToDB: on conflict the row is replaced
insertKlineReplaces(rows, c) ==
    {r \in rows : ConflictKey(r) # ConflictKey(c)} \cup {c}

\* insertKlineToDB: INSERT ... ON CONFLICT (symbol, timeframe, start_time) DO NOTHING
insertKlineToDB(rows, c) ==
    IF \E r \in rows : ConflictKey(r) = ConflictKey(c) THEN rows ELSE rows \cup {c}

\* processMessage: only CLOSE events are written
processMessage(ev) ==
    /\ Len(wlog) < MaxWriterEvents
    /\ wlog' = Append(wlog, ev)
    /\ klines' = IF ev.Status # "CLOSE" THEN klines ELSE insertKlineToDB(klines, ev.Candle)
    /\ UNCHANGED <<aggVars, pubVars, bufVars, ringVars, hubVars, tradeVars, eaVars,
                   taskVars, supVars, dispVars, fnVars>>

WriterIdle ==
    /\ klines = {}
    /\ wlog = <<>>


(***************************************************************************)
(* unnamed/part_006, unnamed/part_007: the strategy runtime.  Money is in  *)
(* dollars, lots in hundredths of a lot.                                   *)
(***************************************************************************)
OrderIds == 1..MaxOrders
UserNumbers == 1..MaxUsers
Balances == {100 * k : k \in 0..MaxBalance}
EANames == {"GreenArrow", "MACD", "MA"}
RiskPercents == 1..MaxRisk
MaxPositionsChoices == -1..MaxCap

\* fmt.Sprintf("%d", user.UserID)
UserIDOf(n) == ToString(n)
UserIDs == {UserIDOf(n) : n \in UserNumbers}

NoInstance == [none |-> TRUE]
NoSignal == [nil |-> TRUE]
NoTrade == [n |-> 0]
NoSig == [n |-> 0]
NoEnq == [n |-> 0]

UserExists(us, id) == id \in DOMAIN us

\* RegisterUser: tm.users[user.UserID] = user
RegisterUser(us, user) ==
    [id \in DOMAIN us \cup {user.UserID} |-> IF id = user.UserID THEN user ELSE us[id]]

\* mutant of StartUser: the whole balance is free
StartUserAllFree(n, name, balance) ==
    [UserID |-> UserIDOf(n), Username |-> name, Balance |-> balance,
     Equity |-> 0, Margin |-> 0, FreeMargin |-> balance]

\* the User StartEA builds: FreeMargin is user.Balance * 0.8
StartUser(n, name, balance) ==
    [UserID |-> UserIDOf(n), Username |-> name, Balance |-> balance,
     Equity |-> 0, Margin |-> 0, FreeMargin |-> (balance * 8) \div 10]

\* requiredMargin := req.Lots * 1000
RequiredMargin(lots) == (lots * MarginPerLot) \div LotScale

TradeFailure(us, ps, msg) ==
    [users |-> us, positions |-> ps,
     resp |-> [Success |-> FALSE, PositionID |-> 0, Message |-> msg]]

\* mutant of ExecuteTrade: the margin is booked but not taken from free_margin
ExecuteTradeKeepsFree(us, ps, id, req) ==
    IF ~UserExists(us, req.UserID) THEN TradeFailure(us, ps, "no user")
    ELSE IF us[req.UserID].FreeMargin < RequiredMargin(req.Lots)
    THEN TradeFailure(us, ps, "margin")
    ELSE [users |-> [us EXCEPT ![req.UserID].Margin = @ + RequiredMargin(req.Lots)],
          positions |-> ps \cup {[PositionID |-> id, UserID |-> req.UserID, EAID |-> req.EAID,
                                  Type |-> req.Type, Lots |-> req.Lots, Status |-> "OPEN"]},
          resp |-> [Success |-> TRUE, PositionID |-> id, Message |-> "opened"]]

\* mutant of ExecuteTrade: the free margin is not compared with the margin
\* the trade requires
ExecuteTradeUnchecked(us, ps, id, req) ==
    IF ~UserExists(us, req.UserID) THEN TradeFailure(us, ps, "no user")
    ELSE [users |-> [us EXCEPT ![req.UserID].Margin = @ + RequiredMargin(req.Lots),
                               ![req.UserID].FreeMargin = @ - RequiredMargin(req.Lots)],
          positions |-> ps \cup {[PositionID |-> id, UserID |-> req.UserID, EAID |-> req.EAID,
                                  Type |-> req.Type, Lots |-> req.Lots, Status |-> "OPEN"]},
          resp |-> [Success |-> TRUE, PositionID |-> id, Message |-> "opened"]]

\* ExecuteTrade on the maps us and ps, id being the fresh position id
ExecuteTrade(us, ps, id, req) ==
    IF ~UserExists(us, req.UserID) THEN TradeFailure(us, ps, "no user")
    ELSE
        LET requiredMargin == RequiredMargin(req.Lots) IN
        IF us[req.UserID].FreeMargin < requiredMargin THEN TradeFailure(us, ps, "margin")
        ELSE [users |-> [us EXCEPT ![req.UserID].Margin = @ + requiredMargin,
                                   ![req.UserID].FreeMargin = @ - requiredMargin],
              positions |-> ps \cup {[PositionID |-> id, UserID |-> req.UserID,
                                      EAID |-> req.EAID, Type |-> req.Type,
                                      Lots |-> req.Lots, Status |-> "OPEN"]},
              resp |-> [Success |-> TRUE, PositionID |-> id, Message |-> "opened"]]

\* what lastTrade keeps of a call: the maps before it and after it
TradeRecord(us, ps, req, res) ==
    [n |-> lastTrade.n + 1, req |-> req, resp |-> res.resp,
     users |-> us, positions |-> ps, usersAfter |-> res.users, positionsAfter |-> res.positions]

abs(x) == IF x < 0 THEN -x ELSE x

\* mutant of CalculateLots: the lots are rounded but not kept within bounds
CalculateLotsUnclamped(balance, riskPercent, entryPrice, stopLoss) ==
    LET pointsRisk == abs(entryPrice - stopLoss)
        num == balance * riskPercent
        den == pointsRisk * PointValue
    IN  IF pointsRisk = 0 THEN MinLots
        ELSE (2 * num + den) \div (2 * den)

\* BaseEAStrategy.CalculateLots, in hundredths of a lot: the lots are
\* balance * riskPercent / 100 / (pointsRisk * 10), kept within 0.01 .. 10.0
\* and rounded to 2 decimals by roundLots
CalculateLots(balance, riskPercent, entryPrice, stopLoss) ==
    LET pointsRisk == abs(entryPrice - stopLoss)
        num == balance * riskPercent
        den == pointsRisk * PointValue
    IN  IF pointsRisk = 0 THEN MinLots
        ELSE IF num < MinLots * den THEN MinLots
        ELSE IF num > MaxLots * den THEN MaxLots
        ELSE (2 * num + den) \div (2 * den)

\* the indicator payloads on the bus: green-arrow results and one that does
\* not parse
BadPayload == [bad |-> TRUE]
StopLevels == {SigPrice, SigPrice - 1, SigPrice - MaxStopDistance}
Indicators ==
    {[IsSignal |-> b, Trend |-> t, UpSignal |-> p, UpStop |-> st,
      DownSignal |-> p, DownStop |-> st] :
        b \in BOOLEAN, t \in {-1, 0, 1}, p \in {0, SigPrice}, st \in StopLevels}
    \cup {BadPayload}

\* mutant of ProcessIndicator: is_signal is not looked at
ProcessIndicatorAlways(name, payload) ==
    IF name = "MACD" \/ payload = BadPayload THEN NoSignal
    ELSE IF payload.Trend = 1 /\ payload.UpSignal > 0
    THEN [Type |-> "BUY", Price |-> payload.UpSignal, StopLoss |-> payload.UpStop]
    ELSE IF payload.Trend = -1 /\ payload.DownSignal > 0
    THEN [Type |-> "SELL", Price |-> payload.DownSignal, StopLoss |-> payload.DownStop]
    ELSE NoSignal

\* ProcessIndicator of the strategy called name: the signal, or NoSignal for
\* nil (with or without an error)
ProcessIndicator(name, payload) ==
    IF name = "MACD" THEN NoSignal
    ELSE IF payload = BadPayload THEN NoSignal
    ELSE IF ~payload.IsSignal THEN NoSignal
    ELSE IF payload.Trend = 1 /\ payload.UpSignal > 0
    THEN [Type |-> "BUY", Price |-> payload.UpSignal, StopLoss |-> payload.UpStop]
    ELSE IF payload.Trend = -1 /\ payload.DownSignal > 0
    THEN [Type |-> "SELL", Price |-> payload.DownSignal, StopLoss |-> payload.DownStop]
    ELSE NoSignal

NoTasks == [sub |-> "none", disp |-> "none"]
NotStopped == [stopped |-> FALSE, cancels |-> 0, closes |-> 0]
NoSup == [n |-> 0]

\* NewTradeManager, NewEARuntimeService
EAIdle ==
    /\ users = <<>>
    /\ positions = {}
    /\ nextPos = 0
    /\ lastTrade = NoTrade
    /\ instances = [o \in OrderIds |-> NoInstance]
    /\ signalChan = [o \in OrderIds |-> <<>>]
    /\ handling = [o \in OrderIds |-> NoSignal]
    /\ nMsgs = 0
    /\ lastSig = NoSig
    /\ lastEnq = NoEnq
    /\ active = {}
    /\ tasks = [o \in OrderIds |-> NoTasks]
    /\ stopChan = [o \in OrderIds |-> NotStopped]
    /\ lastSup = NoSup

\* the dispatcher of ticks before its first quote
TickSymbols == {"XAUUSD", "EURUSD", ""}

NoTick == [none |-> TRUE]

DispIdle ==
    /\ tickChannels = [sym \in TickSymbols |-> [exists |-> FALSE, q |-> <<>>]]
    /\ droppedTicks = [sym \in TickSymbols |-> 0]
    /\ quoteWait = NoTick
    /\ tickLog = [sym \in TickSymbols |-> [received |-> 0, enqueued |-> 0, taken |-> 0]]
    /\ nQuotes = 0

\* no function call under study
NotCalled == [call |-> "none"]
FnIdle == fnIn = NotCalled /\ fnOut = NotCalled

SvcIdle == WriterIdle /\ EAIdle /\ DispIdle /\ FnIdle

(***************************************************************************)
(* candle/aggregator.go: AggregatorManager, the dispatcher of ticks to the *)
(* symbols' workers                                                        *)
(***************************************************************************)
\* Args.Symbol as its parts around the first ".": a symbol with and without
\* a suffix, a second symbol, a missing symbol and a bare suffix
RawSymbols == {<<"XAUUSD">>, <<"XAUUSD", "m">>, <<"EURUSD">>, <<"">>, <<"", "m">>}
UpstreamQuotes ==
    [Type : {"Quote", "Other"}, Symbol : RawSymbols, TimeOk : BOOLEAN, Bid : 1..MaxPrice]

\* parseQuote: NoTick for an error, else the tick with the symbol cut at the
\* first "."
parseQuote(quote) ==
    IF quote.Type # "Quote" THEN NoTick
    ELSE IF ~quote.TimeOk THEN NoTick
    ELSE [Symbol |-> quote.Symbol[1], Price |-> quote.Bid, Volume |-> TickVolume]

\* mutant of CountDropped: the drop is not counted
CountDroppedNever(dropped, symbol) == dropped

\* m.droppedTicks[cleanTick.Symbol]++
CountDropped(dropped, symbol) == [dropped EXCEPT ![symbol] = @ + 1]

\* a send on the channel would block
ChannelFull(q) == Len(q) >= TickChanCap

\* HandleRawQuote up to its first select: the quote is parsed, the symbol's
\* channel and worker are made on first use, and the tick is sent if the
\* channel has room; else the call goes on to wait
HandleRawQuote(quote) ==
    /\ quoteWait = NoTick
    /\ nQuotes < MaxQuotes
    /\ nQuotes' = nQuotes + 1
    /\ LET cleanTick == parseQuote(quote) IN
       IF cleanTick = NoTick
       THEN UNCHANGED <<tickChannels, quoteWait, tickLog>>
       ELSE LET sym == cleanTick.Symbol
                q == tickChannels[sym].q
            IN  /\ tickLog' = [tickLog EXCEPT
                       ![sym].received = @ + 1,
                       ![sym].enqueued = IF ChannelFull(q) THEN @ ELSE @ + 1]
                /\ IF ChannelFull(q)
                   THEN /\ quoteWait' = cleanTick
                        /\ tickChannels' = [tickChannels EXCEPT ![sym].exists = TRUE]
                   ELSE /\ UNCHANGED quoteWait
                        /\ tickChannels' = [tickChannels EXCEPT
                               ![sym] = [exists |-> TRUE, q |-> Append(q, cleanTick)]]
    /\ UNCHANGED droppedTicks
    /\ UNCHANGED <<aggVars, pubVars, bufVars, ringVars, hubVars, writerVars,
                   tradeVars, eaVars, taskVars, supVars, fnVars>>

\* the second select, case tickChannel <- cleanTick
QuoteSentAfterWait ==
    /\ quoteWait # NoTick
    /\ ~ChannelFull(tickChannels[quoteWait.Symbol].q)
    /\ tickChannels' = [tickChannels EXCEPT ![quoteWait.Symbol].q = Append(@, quoteWait)]
    /\ tickLog' = [tickLog EXCEPT ![quoteWait.Symbol].enqueued = @ + 1]
    /\ quoteWait' = NoTick
    /\ UNCHANGED <<droppedTicks, nQuotes>>
    /\ UNCHANGED <<aggVars, pubVars, bufVars, ringVars, hubVars, writerVars,
                   tradeVars, eaVars, taskVars, supVars, fnVars>>

\* the second select, case <-time.After(500 * time.Millisecond)
QuoteTimeout ==
    /\ quoteWait # NoTick
    /\ droppedTicks' = CountDropped(droppedTicks, quoteWait.Symbol)
    /\ quoteWait' = NoTick
    /\ UNCHANGED <<tickChannels, tickLog, nQuotes>>
    /\ UNCHANGED <<aggVars, pubVars, bufVars, ringVars, hubVars, writerVars,
                   tradeVars, eaVars, taskVars, supVars, fnVars>>

\* startSymbolWorker: for tick := range ch
WorkerTake(sym) ==
    /\ tickChannels[sym].exists
    /\ tickChannels[sym].q # <<>>
    /\ tickLog[sym].taken < MaxTakes
    /\ tickChannels' = [tickChannels EXCEPT ![sym].q = Tail(@)]
    /\ tickLog' = [tickLog EXCEPT ![sym].taken = @ + 1]
    /\ UNCHANGED <<droppedTicks, quoteWait, nQuotes>>
    /\ UNCHANGED <<aggVars, pubVars, bufVars, ringVars, hubVars, writerVars,
                   tradeVars, eaVars, taskVars, supVars, fnVars>>

\* SpecDisp starts with the channel of XAUUSD empty, one short of full or full
\* and the one of EURUSD not made yet
DispQueueLens == {0, TickChanCap - 1, TickChanCap}
DispRunning(k) ==
    /\ tickChannels = [sym \in TickSymbols |->
          IF sym = "XAUUSD"
          THEN [exists |-> TRUE,
                q |-> [i \in 1..k |-> [Symbol |-> "XAUUSD", Price |-> 1, Volume |-> TickVolume]]]
          ELSE [exists |-> FALSE, q |-> <<>>]]
    /\ droppedTicks = [sym \in TickSymbols |-> 0]
    /\ quoteWait = NoTick
    /\ tickLog = [sym \in TickSymbols |->
          IF sym = "XAUUSD" THEN [received |-> k, enqueued |-> k, taken |-> 0]
          ELSE [received |-> 0, enqueued |-> 0, taken |-> 0]]
    /\ nQuotes = 0

HandleRawQuotes == \E quote \in UpstreamQuotes : HandleRawQuote(quote)
WorkerTakes == \E sym \in TickSymbols : WorkerTake(sym)
InitDisp ==
    /\ AggInit /\ PubIdle /\ BufIdle /\ RingIdle /\ HubInit /\ WriterIdle /\ EAIdle
    /\ FnIdle
    /\ \E k \in DispQueueLens : DispRunning(k)
NextDisp == HandleRawQuotes \/ QuoteSentAfterWait \/ QuoteTimeout \/ WorkerTakes
SpecDisp == InitDisp /\ [][NextDisp]_vars

(***************************************************************************)
(* GreenArrowEA.ProcessIndicator on any one sample                         *)
(***************************************************************************)
\* green-arrow samples with the two directions' fields told apart: each
\* field at its sentinel, at 0 where the code tests > 0, or at a level
SignalSamples ==
    [IsSignal : BOOLEAN, Trend : {-1, 0, 1},
     UpSignal : {-1, 0, SigPrice}, UpStop : {-1, SigPrice - 1},
     DownSignal : {-1, 0, SigPrice + 1}, DownStop : {-1, SigPrice + 2}]
    \cup {BadPayload}

InitSignal ==
    /\ AggInit /\ PubIdle /\ BufIdle /\ RingIdle /\ HubInit /\ WriterIdle /\ EAIdle
    /\ DispIdle
    /\ fnIn \in SignalSamples
    /\ fnOut = NotCalled

CallProcessIndicator ==
    /\ fnOut = NotCalled
    /\ fnOut' = ProcessIndicator("GreenArrow", fnIn)
    /\ UNCHANGED fnIn
    /\ UNCHANGED <<aggVars, pubVars, bufVars, ringVars, hubVars, writerVars,
                   tradeVars, eaVars, taskVars, supVars, dispVars>>

NextSignal == CallProcessIndicator
SpecSignal == InitSignal /\ [][NextSignal]_vars

(***************************************************************************)
(* CalculateGreenArrow on any one bar sequence                             *)
(***************************************************************************)
\* the inputs: the default parameters on flat closes that then rise, and
\* short windows on any closes, fewer than Length among them
RECURSIVE StepSum(_, _)
StepSum(steps, k) == IF k = 0 THEN 0 ELSE steps[k] + StepSum(steps, k - 1)
FlatThenRising(flat, level, steps) ==
    [k \in 1..(flat + Len(steps)) |->
        IF k <= flat THEN level ELSE level + StepSum(steps, k - flat)]
FlatRisingInputs ==
    {[params |-> DefaultParams, flat |-> flat,
      candles |-> FlatThenRising(flat, level, steps)] :
        flat \in DefaultLength..(DefaultLength + MaxExtraFlat), level \in 1..MaxFlat,
        steps \in UNION {[1..r -> 1..MaxStep] : r \in 1..MaxRising}}
ShortLengths == {2, 3}
ShortInputs ==
    {[params |-> [Length |-> length, Deviation |-> DefaultDeviation, Signal |-> signal,
                  Line |-> line],
      flat |-> 0, candles |-> candles] :
        length \in ShortLengths, signal \in 0..2, line \in 0..1,
        candles \in UNION {[1..n -> 1..MaxClose] : n \in 1..MaxBars}}
ArrowInputs == FlatRisingInputs \cup ShortInputs

InitArrow ==
    /\ AggInit /\ PubIdle /\ BufIdle /\ RingIdle /\ HubInit /\ WriterIdle /\ EAIdle
    /\ DispIdle
    /\ fnIn \in ArrowInputs
    /\ fnOut = NotCalled

\* CalculateGreenArrow up to its main loop
CalculateGreenArrow ==
    /\ fnOut = NotCalled
    /\ fnOut' = ArrowStart(fnIn.candles, fnIn.params)
    /\ UNCHANGED fnIn
    /\ UNCHANGED <<aggVars, pubVars, bufVars, ringVars, hubVars, writerVars,
                   tradeVars, eaVars, taskVars, supVars, dispVars>>

\* one pass of the main loop
ScanBar ==
    /\ fnOut # NotCalled
    /\ ~fnOut.done
    /\ fnOut' = ScanStep(fnOut, fnIn.candles, fnIn.params)
    /\ UNCHANGED fnIn
    /\ UNCHANGED <<aggVars, pubVars, bufVars, ringVars, hubVars, writerVars,
                   tradeVars, eaVars, taskVars, supVars, dispVars>>

\* a level as the strategy model counts prices, in whole units: the whole
\* unit at or below it (equal levels are carried to equal prices)
WireRange == (0 - 2 * SigPrice)..(2 * SigPrice)
Units(level, length) ==
    CHOOSE k \in WireRange :
        ~Less(level, Whole(k, length)) /\ Less(level, Whole(k + 1, length))

\* publishIndicatorToRedis and ProcessIndicator: the sample marshalled and
\* parsed again, with the fields the strategy reads
Wire(sample, length) ==
    [IsSignal |-> sample.IsSignal, Trend |-> sample.Trend,
     UpSignal |-> Units(sample.UpSignal, length), UpStop |-> Units(sample.UpStop, length),
     DownSignal |-> Units(sample.DownSignal, length),
     DownStop |-> Units(sample.DownStop, length)]

\* handleIndicator and executeSignal on every sample of the result: the
\* signal the Green Arrow strategy derives from it and the lots of its trade,
\* for an account of balance 100 * MaxBalance at risk MaxRisk
DeriveSignals ==
    /\ fnOut # NotCalled
    /\ fnOut.done
    /\ "signals" \notin DOMAIN fnOut
    /\ LET signals == [i \in DOMAIN fnOut.results |->
                          ProcessIndicator("GreenArrow",
                                           Wire(fnOut.results[i], fnIn.params.Length))]
           lots == [i \in DOMAIN fnOut.results |->
                       IF signals[i] = NoSignal THEN 0
                       ELSE CalculateLots(100 * MaxBalance, MaxRisk, signals[i].Price,
                                          signals[i].StopLoss)]
       IN  fnOut' = [done |-> TRUE, i |-> fnOut.i, trend |-> fnOut.trend,
                     results |-> fnOut.results, signals |-> signals, lots |-> lots]
    /\ UNCHANGED fnIn
    /\ UNCHANGED <<aggVars, pubVars, bufVars, ringVars, hubVars, writerVars,
                   tradeVars, eaVars, taskVars, supVars, dispVars>>

NextArrow == CalculateGreenArrow \/ ScanBar \/ DeriveSignals
SpecArrow == InitArrow /\ [][NextArrow]_vars

(***************************************************************************)
(* BaseEAStrategy.CalculateLots on any one set of arguments                *)
(***************************************************************************)
\* a debt, nothing, and balances up to where the 10.0 lots are passed; the
\* stop on either side of the entry and on it
LotsBalances == {100 * (k * k * k * k - 1) : k \in 0..MaxLotsBalance}
LotsInputs ==
    [balance : LotsBalances, riskPercent : 0..MaxLotsRisk, entryPrice : {SigPrice},
     stopLoss : (SigPrice - MaxStopDistance)..(SigPrice + MaxStopDistance)]

InitLots ==
    /\ AggInit /\ PubIdle /\ BufIdle /\ RingIdle /\ HubInit /\ WriterIdle /\ EAIdle
    /\ DispIdle
    /\ fnIn \in LotsInputs
    /\ fnOut = NotCalled

CallCalculateLots ==
    /\ fnOut = NotCalled
    /\ fnOut' = [lots |-> CalculateLots(fnIn.balance, fnIn.riskPercent, fnIn.entryPrice,
                                       fnIn.stopLoss)]
    /\ UNCHANGED fnIn
    /\ UNCHANGED <<aggVars, pubVars, bufVars, ringVars, hubVars, writerVars,
                   tradeVars, eaVars, taskVars, supVars, dispVars>>

NextLots == CallCalculateLots
SpecLots == InitLots /\ [][NextLots]_vars

(***************************************************************************)
(* loadFromDB on any one table                                             *)
(***************************************************************************)
\* the rows of one key, newest first as ORDER BY start_time DESC returns
\* them: OHLC-valid or with high < low, and start times that may repeat
WarmRowSet == {DbRow(t * Timeframe, ok) : t \in 1..MaxWarmRows, ok \in BOOLEAN}
WarmRowSeqs ==
    {r \in UNION {[1..n -> WarmRowSet] : n \in 0..MaxWarmRows} :
        \A i \in 1..(Len(r) - 1) : r[i].Time >= r[i + 1].Time}
WarmInputs == [rows : WarmRowSeqs, n : 1..MaxSize]

InitWarm ==
    /\ AggInit /\ PubIdle /\ BufIdle /\ RingIdle /\ HubInit /\ WriterIdle /\ EAIdle
    /\ DispIdle
    /\ fnIn \in WarmInputs
    /\ fnOut = NotCalled

CallLoadFromDB ==
    /\ fnOut = NotCalled
    /\ fnOut' = [candles |-> loadFromDB(fnIn.rows, fnIn.n)]
    /\ UNCHANGED fnIn
    /\ UNCHANGED <<aggVars, pubVars, bufVars, ringVars, hubVars, writerVars,
                   tradeVars, eaVars, taskVars, supVars, dispVars>>

NextWarm == CallLoadFromDB
SpecWarm == InitWarm /\ [][NextWarm]_vars

\* SpecWriter: the writer fed any sequence of bar events, replays included
WriterReceives == \E ev \in WriterEvents : processMessage(ev)
InitWriter == AggInit /\ PubIdle /\ BufIdle /\ RingIdle /\ HubInit /\ SvcIdle
NextWriter == WriterReceives
SpecWriter == InitWriter /\ [][NextWriter]_vars

\* mutant of OrderActive: no order id is taken for active
OrderActiveNever(act, orderID) == FALSE

\* _, exists := s.instances[orderID]
OrderActive(act, orderID) == orderID \in act

\* both tasks of the order's instance have ended, or it never had any
TasksEnded(orderID) == tasks[orderID].sub # "run" /\ tasks[orderID].disp # "run"

\* mutant of StartTasks: the enabled flag is not looked at
StartTasksAlways(enabled) == [sub |-> "run", disp |-> "run"]

\* Start: go subscribeIndicator, go processSignals, unless the instance is not enabled
StartTasks(enabled) == IF enabled THEN [sub |-> "run", disp |-> "run"] ELSE NoTasks

\* StartEA on an order id that is not active: the user is registered once,
\* before the strategy is made; an unknown ea_name leaves the registration and
\* starts nothing.  (An order id is started again only after the tasks of its
\* former instance have ended.)
StartEA(orderID, eaName, risk, cap, n, balance, enabled) ==
    /\ ~OrderActive(active, orderID)
    /\ TasksEnded(orderID)
    /\ users' = IF UserExists(users, UserIDOf(n)) THEN users
                ELSE RegisterUser(users, StartUser(n, "user", balance))
    /\ IF eaName \in {"GreenArrow", "MACD"}
       THEN /\ instances' = [instances EXCEPT ![orderID] =
                [orderID |-> orderID, EAName |-> eaName, RiskPercent |-> risk,
                 MaxPositions |-> cap, user |-> StartUser(n, "user", balance),
                 positions |-> {}, paused |-> FALSE, Enabled |-> enabled]]
            /\ active' = active \cup {orderID}
            /\ signalChan' = [signalChan EXCEPT ![orderID] = <<>>]
            /\ handling' = [handling EXCEPT ![orderID] = NoSignal]
            /\ tasks' = [tasks EXCEPT ![orderID] = StartTasks(enabled)]
            /\ stopChan' = [stopChan EXCEPT ![orderID] = NotStopped]
       ELSE UNCHANGED <<instances, signalChan, handling, taskVars>>
    /\ UNCHANGED <<positions, nextPos, lastTrade, nMsgs, lastSig, lastEnq>>
    /\ UNCHANGED <<aggVars, pubVars, bufVars, ringVars, hubVars, writerVars, dispVars, fnVars>>

\* Pause and Resume set the flag under pausedMu
Pause(orderID) ==
    /\ OrderActive(active, orderID)
    /\ ~instances[orderID].paused
    /\ instances' = [instances EXCEPT ![orderID].paused = TRUE]
    /\ UNCHANGED <<signalChan, handling, nMsgs, lastSig, lastEnq, tradeVars, taskVars>>
    /\ UNCHANGED <<aggVars, pubVars, bufVars, ringVars, hubVars, writerVars, dispVars, fnVars>>

Resume(orderID) ==
    /\ OrderActive(active, orderID)
    /\ instances[orderID].paused
    /\ instances' = [instances EXCEPT ![orderID].paused = FALSE]
    /\ UNCHANGED <<signalChan, handling, nMsgs, lastSig, lastEnq, tradeVars, taskVars>>
    /\ UNCHANGED <<aggVars, pubVars, bufVars, ringVars, hubVars, writerVars, dispVars, fnVars>>

\* handleIndicator up to its send: the flag is read under the read lock, the
\* lock is released and the strategy turns the payload into a signal or nil
HandleRead(orderID, payload) ==
    /\ tasks[orderID].sub = "run"
    /\ handling[orderID] = NoSignal
    /\ nMsgs < MaxMsgs
    /\ nMsgs' = nMsgs + 1
    /\ LET signal == ProcessIndicator(instances[orderID].EAName, payload) IN
       IF instances[orderID].paused \/ signal = NoSignal
       THEN UNCHANGED handling
       ELSE handling' = [handling EXCEPT ![orderID] = signal]
    /\ UNCHANGED <<instances, signalChan, lastSig, lastEnq, tradeVars, taskVars, supVars>>
    /\ UNCHANGED <<aggVars, pubVars, bufVars, ringVars, hubVars, writerVars, dispVars, fnVars>>

\* handleIndicator's send: ea.signalChan <- *signal
HandleSend(orderID) ==
    /\ handling[orderID] # NoSignal
    /\ Len(signalChan[orderID]) < SignalChanCap
    /\ signalChan' = [signalChan EXCEPT ![orderID] = Append(@, handling[orderID])]
    /\ handling' = [handling EXCEPT ![orderID] = NoSignal]
    /\ lastEnq' = [n |-> 1, orderID |-> orderID,
                   paused |-> instances[orderID].paused]
    /\ UNCHANGED <<instances, nMsgs, lastSig, tradeVars, taskVars, supVars>>
    /\ UNCHANGED <<aggVars, pubVars, bufVars, ringVars, hubVars, writerVars, dispVars, fnVars>>

\* mutant of AtMaxPositions: one position more is let in
AtMaxPositionsLate(openCount, maxPositions) == openCount > maxPositions

\* executeSignal's admission check: openCount >= ea.config.MaxPositions
AtMaxPositions(openCount, maxPositions) == openCount >= maxPositions

\* processSignals takes one signal and runs executeSignal on it
executeSignal(orderID) ==
    /\ tasks[orderID].disp = "run"
    /\ signalChan[orderID] # <<>>
    /\ LET ea == instances[orderID]
           signal == Head(signalChan[orderID])
           openCount == Cardinality(ea.positions)
           lots == CalculateLots(ea.user.Balance, ea.RiskPercent, signal.Price, signal.StopLoss)
           req == [UserID |-> ea.user.UserID, EAID |-> ToString(orderID),
                   Type |-> signal.Type, Lots |-> lots]
           res == ExecuteTrade(users, positions, nextPos + 1, req)
       IN
       /\ signalChan' = [signalChan EXCEPT ![orderID] = Tail(@)]
       /\ IF AtMaxPositions(openCount, ea.MaxPositions)
          THEN UNCHANGED <<instances, tradeVars>>
          ELSE /\ users' = res.users
               /\ positions' = res.positions
               /\ nextPos' = IF res.resp.Success THEN nextPos + 1 ELSE nextPos
               /\ lastTrade' = TradeRecord(users, positions, req, res)
               /\ instances' = IF res.resp.Success
                               THEN [instances EXCEPT ![orderID].positions =
                                         @ \cup {res.resp.PositionID}]
                               ELSE instances
       /\ lastSig' = [n |-> 1, orderID |-> orderID, before |-> openCount,
                      after |-> Cardinality(instances'[orderID].positions),
                      calls |-> lastTrade'.n - lastTrade.n,
                      opened |-> positions' \ positions,
                      stopped |-> stopChan[orderID].stopped,
                      paused |-> ea.paused]
    /\ UNCHANGED <<handling, nMsgs, lastEnq, taskVars, supVars>>
    /\ UNCHANGED <<aggVars, pubVars, bufVars, ringVars, hubVars, writerVars, dispVars, fnVars>>

\* what lastSup keeps of the state: the supervisor's map and the instances'
\* stop latches and tasks
SupStateOf(act, insts, stops, tsks) ==
    [active |-> act, instances |-> insts, stopChan |-> stops, tasks |-> tsks]
SupRecord(op, orderID, arg, err) ==
    [n |-> 1, op |-> op, orderID |-> orderID, arg |-> arg, err |-> err,
     before |-> SupStateOf(active, instances, stopChan, tasks),
     after |-> SupStateOf(active', instances', stopChan', tasks')]

\* mutant of StopInstance: the stopped flag is not looked at
StopInstanceAgain(st) ==
    [stopped |-> TRUE, cancels |-> st.cancels + 1, closes |-> st.closes + 1]

\* the body of Stop under stoppedMu: return if stopped, else set the flag,
\* cancel the context and close stopChan
StopInstance(st) ==
    IF st.stopped THEN st
    ELSE [stopped |-> TRUE, cancels |-> st.cancels + 1, closes |-> st.closes + 1]

\* Stop called on an instance, by whoever holds it
Stop(orderID) ==
    /\ instances[orderID] # NoInstance
    /\ stopChan' = [stopChan EXCEPT ![orderID] = StopInstance(@)]
    /\ UNCHANGED <<active, tasks, eaVars, tradeVars>>
    /\ lastSup' = SupRecord("Stop", orderID, "", FALSE)
    /\ UNCHANGED <<aggVars, pubVars, bufVars, ringVars, hubVars, writerVars, dispVars, fnVars>>

\* StopEA: an error for an order id that is not active, else Stop and delete
StopEA(orderID) ==
    /\ IF ~OrderActive(active, orderID)
       THEN UNCHANGED taskVars
       ELSE /\ stopChan' = [stopChan EXCEPT ![orderID] = StopInstance(@)]
            /\ active' = active \ {orderID}
            /\ UNCHANGED tasks
    /\ UNCHANGED <<eaVars, tradeVars>>
    /\ lastSup' = SupRecord("StopEA", orderID, "", ~OrderActive(active, orderID))
    /\ UNCHANGED <<aggVars, pubVars, bufVars, ringVars, hubVars, writerVars, dispVars, fnVars>>

\* a supervisor call that finds its order id in the wrong state returns an
\* error at once
Rejected(op, orderID, arg) ==
    /\ UNCHANGED <<eaVars, tradeVars, taskVars>>
    /\ lastSup' = SupRecord(op, orderID, arg, TRUE)
    /\ UNCHANGED <<aggVars, pubVars, bufVars, ringVars, hubVars, writerVars, dispVars, fnVars>>

\* the supervisor's calls with what they return
SupStartEA(orderID, eaName, risk, cap, n, balance, enabled) ==
    \/ /\ OrderActive(active, orderID)
       /\ Rejected("StartEA", orderID, eaName)
    \/ /\ StartEA(orderID, eaName, risk, cap, n, balance, enabled)
       /\ lastSup' = SupRecord("StartEA", orderID, eaName, eaName \notin {"GreenArrow", "MACD"})

SupPauseEA(orderID) ==
    \/ /\ ~OrderActive(active, orderID)
       /\ Rejected("PauseEA", orderID, "")
    \/ /\ Pause(orderID)
       /\ lastSup' = SupRecord("PauseEA", orderID, "", FALSE)

SupResumeEA(orderID) ==
    \/ /\ ~OrderActive(active, orderID)
       /\ Rejected("ResumeEA", orderID, "")
    \/ /\ Resume(orderID)
       /\ lastSup' = SupRecord("ResumeEA", orderID, "", FALSE)

\* subscribeIndicator's select takes <-ea.stopChan: the subscriber returns
SubExit(orderID) ==
    /\ tasks[orderID].sub = "run"
    /\ handling[orderID] = NoSignal
    /\ stopChan[orderID].stopped
    /\ tasks' = [tasks EXCEPT ![orderID].sub = "done"]
    /\ UNCHANGED <<active, stopChan, eaVars, tradeVars, supVars>>
    /\ UNCHANGED <<aggVars, pubVars, bufVars, ringVars, hubVars, writerVars, dispVars, fnVars>>

\* processSignals' select takes <-ea.stopChan: the dispatcher returns
DispExit(orderID) ==
    /\ tasks[orderID].disp = "run"
    /\ stopChan[orderID].stopped
    /\ tasks' = [tasks EXCEPT ![orderID].disp = "done"]
    /\ UNCHANGED <<active, stopChan, eaVars, tradeVars, supVars>>
    /\ UNCHANGED <<aggVars, pubVars, bufVars, ringVars, hubVars, writerVars, dispVars, fnVars>>

\* any caller's ExecuteTrade
TradeCall(req) ==
    /\ lastTrade.n < MaxTrades
    /\ LET res == ExecuteTrade(users, positions, nextPos + 1, req) IN
       /\ users' = res.users
       /\ positions' = res.positions
       /\ nextPos' = IF res.resp.Success THEN nextPos + 1 ELSE nextPos
       /\ lastTrade' = TradeRecord(users, positions, req, res)
    /\ UNCHANGED <<eaVars, taskVars, supVars>>
    /\ UNCHANGED <<aggVars, pubVars, bufVars, ringVars, hubVars, writerVars, dispVars, fnVars>>

TradeLots == {MinLots, MaxTradeLots - 1, MaxTradeLots}
TradeUserIDs == {UserIDOf(n) : n \in 1..(MaxUsers + 1)}
TradeRequests == [UserID : TradeUserIDs, EAID : {"1"}, Type : {"BUY"}, Lots : TradeLots]

StartEAs ==
    \E orderID \in OrderIds, eaName \in EANames, risk \in RiskPercents,
       cap \in MaxPositionsChoices, n \in UserNumbers, balance \in Balances :
        StartEA(orderID, eaName, risk, cap, n, balance, TRUE) /\ UNCHANGED supVars
Pauses == \E orderID \in OrderIds : Pause(orderID) /\ UNCHANGED supVars
Resumes == \E orderID \in OrderIds : Resume(orderID) /\ UNCHANGED supVars
HandleReads == \E orderID \in OrderIds, payload \in Indicators : HandleRead(orderID, payload)
HandleSends == \E orderID \in OrderIds : HandleSend(orderID)
executeSignals == \E orderID \in OrderIds : executeSignal(orderID)
TradeCalls == \E req \in TradeRequests : TradeCall(req)
StartsFirst ==
    \E eaName \in EANames, risk \in RiskPercents, cap \in MaxPositionsChoices,
       n \in UserNumbers, balance \in Balances :
        StartEA(1, eaName, risk, cap, n, balance, TRUE) /\ UNCHANGED supVars

InitEA == AggInit /\ PubIdle /\ BufIdle /\ RingIdle /\ HubInit /\ SvcIdle

\* SpecTrade: the trade manager under the registrations of one order id's
\* starts and any ExecuteTrade calls
NextTrade == StartsFirst \/ TradeCalls
SpecTrade == InitEA /\ [][NextTrade]_vars

\* SpecEA: the runtime with its instances' two loops, Pause and Resume
NextEA == StartEAs \/ Pauses \/ Resumes \/ HandleReads \/ HandleSends \/ executeSignals
SpecEA == InitEA /\ [][NextEA]_vars

Stops == \E orderID \in OrderIds : Stop(orderID)
StopEAs == \E orderID \in OrderIds : StopEA(orderID)
SubExits == \E orderID \in OrderIds : SubExit(orderID)
DispExits == \E orderID \in OrderIds : DispExit(orderID)
SupStartEAs ==
    \E orderID \in OrderIds, eaName \in EANames, risk \in RiskPercents,
       n \in UserNumbers, enabled \in BOOLEAN :
        SupStartEA(orderID, eaName, risk, MaxCap, n, 100 * MaxBalance, enabled)
SupPauseEAs == \E orderID \in OrderIds : SupPauseEA(orderID)
SupResumeEAs == \E orderID \in OrderIds : SupResumeEA(orderID)

\* SpecSup: the supervisor under any calls, with every ea_name and both values
\* of the enabled flag
NextSup == SupStartEAs \/ SupPauseEAs \/ SupResumeEAs \/ StopEAs \/ SubExits \/ DispExits
SpecSup == InitEA /\ [][NextSup]_vars

\* SpecStop starts with order 1 running and its signal queue empty, one short
\* of full or full
QueuedSignal == [Type |-> "BUY", Price |-> SigPrice, StopLoss |-> SigPrice - MaxStopDistance]
StopQueueLens == {0, SignalChanCap - 1, SignalChanCap}
RunningWith(k, cap) ==
    /\ users = RegisterUser(<<>>, StartUser(1, "user", 100 * MaxBalance))
    /\ positions = {}
    /\ nextPos = 0
    /\ lastTrade = NoTrade
    /\ instances = [o \in OrderIds |->
          IF o = 1
          THEN [orderID |-> 1, EAName |-> "GreenArrow", RiskPercent |-> 1,
                MaxPositions |-> cap, user |-> StartUser(1, "user", 100 * MaxBalance),
                positions |-> {}, paused |-> FALSE, Enabled |-> TRUE]
          ELSE NoInstance]
    /\ signalChan = [o \in OrderIds |-> IF o = 1 THEN [i \in 1..k |-> QueuedSignal] ELSE <<>>]
    /\ handling = [o \in OrderIds |-> NoSignal]
    /\ nMsgs = 0
    /\ lastSig = NoSig
    /\ lastEnq = NoEnq
    /\ active = {1}
    /\ tasks = [o \in OrderIds |-> IF o = 1 THEN StartTasks(TRUE) ELSE NoTasks]
    /\ stopChan = [o \in OrderIds |-> NotStopped]
    /\ lastSup = NoSup

RunningFirst(k) == RunningWith(k, MaxCap)

InitStop ==
    /\ AggInit /\ PubIdle /\ BufIdle /\ RingIdle /\ HubInit /\ WriterIdle /\ DispIdle
    /\ FnIdle
    /\ \E k \in StopQueueLens : RunningFirst(k)

\* SpecStop: a running instance under Stop, StopEA and its two loops, every
\* indicator message being the one that gives QueuedSignal
StopPayload ==
    [IsSignal |-> TRUE, Trend |-> 1, UpSignal |-> SigPrice,
     UpStop |-> SigPrice - MaxStopDistance,
     DownSignal |-> SigPrice, DownStop |-> SigPrice - MaxStopDistance]
StopReads == \E orderID \in OrderIds : HandleRead(orderID, StopPayload)
NextStop ==
    StopReads \/ HandleSends \/ executeSignals \/ Stops \/ StopEAs \/ SubExits \/ DispExits
SpecStop == InitStop /\ [][NextStop]_vars

\* SpecStopFair: every task that can take a step takes one in the end, and a
\* select that finds stopChan closed again and again takes that case in the end
FairTasks ==
    \A orderID \in OrderIds :
        /\ WF_vars(HandleSend(orderID))
        /\ WF_vars(executeSignal(orderID))
        /\ SF_vars(SubExit(orderID))
        /\ SF_vars(DispExit(orderID))
SpecStopFair == SpecStop /\ FairTasks

(***************************************************************************)
(* SpecRing: one CandleBuffer of capacity maxSize under any Add / Update.  *)
(***************************************************************************)
RingBars == {CandleData(t, 1, 1, 1, 1, 1) : t \in 1..MaxRingTime}

RingAdd ==
    /\ nOps < MaxRingOps
    /\ \E candle \in RingBars :
        /\ cb' = Add(cb, candle, maxSize)
        /\ addedLog' = Append(addedLog, candle)
        /\ slotLog' = Append(slotLog, candle)
    /\ nOps' = nOps + 1
    /\ UNCHANGED <<views, lastMut, aggVars, pubVars, bufVars, hubVars, svcVars>>

RingUpdate ==
    /\ nOps < MaxRingOps
    /\ \E candle \in RingBars :
        /\ cb' = Update(cb, candle)
        /\ slotLog' = IF slotLog = <<>> THEN <<candle>>
                       ELSE [slotLog EXCEPT ![Len(slotLog)] = candle]
    /\ nOps' = nOps + 1
    /\ UNCHANGED <<addedLog, views, lastMut, aggVars, pubVars, bufVars, hubVars, svcVars>>

InitRing ==
    /\ AggInit /\ PubIdle /\ RingIdle /\ HubInit /\ SvcIdle
    /\ maxSize \in 1..MaxSize
    /\ db = [present |-> FALSE, rows |-> [k \in Keys |-> <<>>]]
    /\ buffers = [k \in Keys |-> [exists |-> FALSE, candles |-> <<>>]]
    /\ fed = 0
    /\ lastAdd = NoAdd
NextRing == RingAdd \/ RingUpdate
SpecRing == InitRing /\ [][NextRing]_vars

(***************************************************************************)
(* SpecCopy: the CandleBuffer of SpecRing with two reader tasks that call  *)
(* GetAll / GetCandles and write to the slice they got.                    *)
(***************************************************************************)
\* what a reader writes into its slice
Scribble == CandleData(0, 0, 0, 0, 0, 0)

\* a reader task calls GetAll (under the read lock)
ReaderGetAll(t) ==
    /\ lastMut.n < MaxReaderWrites
    /\ views[t] = NoView
    /\ views' = [views EXCEPT ![t] = GetCandlesView(cb)]
    /\ UNCHANGED <<cb, addedLog, slotLog, nOps, lastMut>>
    /\ UNCHANGED <<aggVars, pubVars, bufVars, hubVars, svcVars>>

\* a reader task overwrites element i of the slice it holds: the write goes to
\* the array under the slice
ReaderOverwrite(t, i) ==
    /\ lastMut.n < MaxReaderWrites
    /\ views[t] # NoView
    /\ i \in 1..Len(views[t].data)
    /\ views' = [views EXCEPT ![t].data[i] = Scribble]
    /\ cb' = IF views[t].arr = "internal" /\ i <= Len(cb) THEN [cb EXCEPT ![i] = Scribble]
             ELSE cb
    /\ lastMut' = [n |-> lastMut.n + 1, before |-> cb, after |-> cb']
    /\ UNCHANGED <<addedLog, slotLog, nOps>>
    /\ UNCHANGED <<aggVars, pubVars, bufVars, hubVars, svcVars>>

\* a reader task appends to the slice it holds: the slice is full (len = cap),
\* so append moves the reader to a new array
ReaderAppend(t) ==
    /\ lastMut.n < MaxReaderWrites
    /\ views[t] # NoView
    /\ Len(views[t].data) <= maxSize
    /\ views' = [views EXCEPT ![t] = [arr |-> "own", data |-> Append(@.data, Scribble)]]
    /\ lastMut' = [n |-> lastMut.n + 1, before |-> cb, after |-> cb]
    /\ UNCHANGED <<cb, addedLog, slotLog, nOps>>
    /\ UNCHANGED <<aggVars, pubVars, bufVars, hubVars, svcVars>>

ReaderGets == \E t \in ReaderTasks : ReaderGetAll(t)
ReaderOverwrites == \E t \in ReaderTasks : \E i \in 1..(MaxSize + 1) : ReaderOverwrite(t, i)
ReaderAppends == \E t \in ReaderTasks : ReaderAppend(t)

InitCopy == InitRing
NextCopy == RingAdd \/ RingUpdate \/ ReaderGets \/ ReaderOverwrites \/ ReaderAppends
SpecCopy == InitCopy /\ [][NextCopy]_vars

(***************************************************************************)
(* SpecAdd: any AddCandle calls on a manager, with bars of every OHLC      *)
(* shape.                                                                  *)
(***************************************************************************)
AddPrices == {1, 2}
AddBars ==
    {CandleData(t * Timeframe, o, h, l, c, 1) :
        t \in 1..MaxAddTime, o \in AddPrices, h \in AddPrices, l \in AddPrices, c \in AddPrices}

ManagerAddCandle(key, candle, isNew) ==
    /\ lastAdd.n < MaxAdds
    /\ AddCandle(key, candle, isNew)
    /\ lastAdd' = [n |-> lastAdd.n + 1, key |-> key, candle |-> candle, isNew |-> isNew,
                   before |-> buffers[key]]
    /\ UNCHANGED <<maxSize, db, fed, aggVars, pubVars, ringVars, hubVars, svcVars>>

AddCalls == \E key \in Keys, candle \in AddBars, isNew \in BOOLEAN :
                ManagerAddCandle(key, candle, isNew)

InitAdd == AggInit /\ PubIdle /\ BufInit /\ RingIdle /\ HubInit /\ SvcIdle
NextAdd == AddCalls
SpecAdd == InitAdd /\ [][NextAdd]_vars

(***************************************************************************)
(* SpecFeed: the events of one state machine applied, in the order they    *)
(* were emitted, to the buffer of their key through AddCandle.             *)
(***************************************************************************)
FeedKey == CHOOSE k \in Keys : TRUE

FeedTick ==
    /\ \E tick \in Ticks : ProcessTick(tick, MaxFeedTicks)
    /\ UNCHANGED <<delivered, bufVars, ringVars, hubVars, svcVars>>

\* handleKlineMessage (lines 111-132) on the next event: is_new is status = CLOSE
FeedApply ==
    /\ fed < Len(emitted)
    /\ LET ev == emitted[fed + 1]
       IN  AddCandle(FeedKey, ToCandleData(ev.Candle), ev.Status = "CLOSE")
    /\ fed' = fed + 1
    /\ UNCHANGED <<maxSize, db, lastAdd, aggVars, pubVars, ringVars, hubVars, svcVars>>

InitFeed == AggInit /\ PubIdle /\ BufInit /\ RingIdle /\ HubInit /\ SvcIdle
NextFeed == FeedTick \/ FeedApply
SpecFeed == InitFeed /\ [][NextFeed]_vars

(***************************************************************************)
(* SpecAgg: one timeframe state machine fed any tick sequence.             *)
(***************************************************************************)
AggTick ==
    /\ \E tick \in Ticks : ProcessTick(tick, MaxTicks)
    /\ UNCHANGED <<delivered, bufVars, ringVars, hubVars, svcVars>>

InitAgg == AggInit /\ PubIdle /\ BufIdle /\ RingIdle /\ HubInit /\ SvcIdle
NextAgg == AggTick
SpecAgg == InitAgg /\ [][NextAgg]_vars

(***************************************************************************)
(* SpecPub: the state machine together with its publish tasks and the bus. *)
(***************************************************************************)
PubTick ==
    /\ \E tick \in Ticks : ProcessTick(tick, MaxPubTicks)
    /\ UNCHANGED <<delivered, bufVars, ringVars, hubVars, svcVars>>

PubRun == \E i \in inflight : Publish(i)

PubFail == \E i \in inflight : PublishFails(i)

InitPub == AggInit /\ PubIdle /\ BufIdle /\ RingIdle /\ HubInit /\ SvcIdle
NextPub == PubTick \/ PubRun \/ PubFail
SpecPub == InitPub /\ [][NextPub]_vars

(***************************************************************************)
(* SpecHub: the Hub with its manager, two clients that subscribe and       *)
(* unsubscribe, their sendSnapshot tasks and their write pumps.            *)
(***************************************************************************)
HubRegisters == \E c \in ClientIds : HubRegister(c)
HubTakes == \E ev \in HubEvents : HubTakeEvent(ev)
Subscribes == \E c \in ClientIds, ch \in Channels : ClientSubscribe(c, ch)
Unsubscribes == \E c \in ClientIds, ch \in Channels : ClientUnsubscribe(c, ch)
Writes == \E c \in ClientIds : ClientWrite(c)
SnapReads == \E i \in 1..Len(snapTasks) : SnapRead(i)
SnapSends == \E i \in 1..Len(snapTasks) : SnapSend(i)
Disconnects == \E c \in ClientIds : ClientDisconnect(c)
HubUnregisters == \E c \in ClientIds : HubUnregister(c)

\* the klines table as the writer service fills it: bars of the state machine,
\* whose high and low bound their open and close
HubDbChoices ==
    {d \in DbChoices : \A k \in Keys : \A i \in 1..Len(d.rows[k]) : OHLCValid(d.rows[k][i])}

\* NewHub(maxSize, db): main.go builds one Hub, with one buffer size
HubBufInit ==
    /\ maxSize = MaxSize
    /\ db \in HubDbChoices
    /\ buffers = [k \in Keys |-> [exists |-> FALSE, candles |-> <<>>]]
    /\ fed = 0
    /\ lastAdd = NoAdd

InitHub == AggInit /\ PubIdle /\ HubBufInit /\ RingIdle /\ HubInit /\ SvcIdle
NextHub ==
    \/ HubRegisters
    \/ HubTakes
    \/ HubLoadFromDB
    \/ HubAddCandle
    \/ HubForward
    \/ Subscribes
    \/ Unsubscribes
    \/ Writes
    \/ SnapReads
    \/ SnapSends
    \/ Disconnects
    \/ HubUnregisters
    \/ SendOnClosed
SpecHub == InitHub /\ [][NextHub]_vars

(***************************************************************************)
(* the Hub's bar-event handler on a buffer that holds about as many bars   *)
(* as the indicator's Length                                               *)
(***************************************************************************)
\* a buffer of n flat bars at price c, as n CLOSE events leave it
FlatBars(n, c) == [i \in 1..n |-> CandleData(i * Timeframe, c, c, c, c, TickVolume)]
IndBuffers ==
    {FlatBars(n, c) : n \in (DefaultLength - MaxShort)..(DefaultLength + 1),
                      c \in 1..MaxIndClose}

\* the bar events that follow: flat bars later than the buffer's, and one
\* with high < low
IndCandles ==
    {[StartTime |-> (DefaultLength + t) * Timeframe,
      Open |-> c, High |-> c, Low |-> c, Close |-> c, Volume |-> TickVolume] :
        t \in 1..MaxIndTime, c \in 1..MaxIndClose}
    \cup {[StartTime |-> (DefaultLength + 1) * Timeframe,
           Open |-> 1, High |-> 0, Low |-> 1, Close |-> 1, Volume |-> TickVolume]}
IndEvents == [key : Keys, Status : {"UPDATE", "CLOSE"}, Candle : IndCandles]

IndBufInit ==
    /\ maxSize = DefaultLength + 1
    /\ db = [present |-> FALSE, rows |-> [k \in Keys |-> <<>>]]
    /\ buffers \in [Keys -> [exists : {TRUE}, candles : IndBuffers]]
    /\ fed = 0
    /\ lastAdd = NoAdd

IndTakes == \E ev \in IndEvents : HubTake(ev, MaxIndEvents)

InitInd == AggInit /\ PubIdle /\ IndBufInit /\ RingIdle /\ HubInit /\ SvcIdle
NextInd == IndTakes \/ HubAddCandle \/ HubForward
SpecInd == InitInd /\ [][NextInd]_vars

(***************************************************************************)
(* the Hub's bar-event handler and one Green Arrow instance that is         *)
(* subscribed to the indicator channel of the key                           *)
(***************************************************************************)
\* subscribeIndicator: the next event published on the instance's channel
\* is handed to handleIndicator, as the bus delivers it
PipeRead(orderID) ==
    /\ nMsgs < Len(indPublished)
    /\ HandleRead(orderID, Wire(indPublished[nMsgs + 1].data, DefaultLength))

PipeReads == \E orderID \in OrderIds : PipeRead(orderID)

\* the instance of order 1 runs with the max_positions StartEA's caller
\* gives by default, its queue empty
InitPipe ==
    /\ AggInit /\ PubIdle /\ IndBufInit /\ RingIdle /\ HubInit /\ WriterIdle /\ DispIdle
    /\ FnIdle
    /\ RunningWith(0, DefaultMaxPositions)
NextPipe == IndTakes \/ HubAddCandle \/ HubForward \/ PipeReads \/ HandleSends \/ executeSignals
SpecPipe == InitPipe /\ [][NextPipe]_vars

(***************************************************************************)
(* Claims about the timeframe state machine (SpecAgg).                     *)
(***************************************************************************)
IsUpdate(i) == emitted[i].Status = "UPDATE"
IsClose(i) == emitted[i].Status = "CLOSE"
StartOf(i) == emitted[i].Candle.StartTime

\* the index of the last UPDATE before event i (0 when there is none)
RECURSIVE LastUpdateBefore(_)
LastUpdateBefore(i) ==
    IF i <= 1 THEN 0
    ELSE IF IsUpdate(i - 1) THEN i - 1 ELSE LastUpdateBefore(i - 1)

\* C1 as stated: the emitted events are a concatenation of blocks UPDATE+ CLOSE,
\* one block per bar: every CLOSE directly follows an UPDATE of the same bar,
\* every UPDATE either continues the bar of the UPDATE before it or opens a
\* later bar right after the CLOSE of the previous one, start_time never
\* decreases along the sequence, and every start_time is a multiple of P.
C1_UpdateCloseBlocks ==
    \A i \in 1..Len(emitted) :
        /\ StartOf(i) % Timeframe = 0
        /\ IsClose(i) => i > 1 /\ IsUpdate(i - 1) /\ StartOf(i - 1) = StartOf(i)
        /\ IsUpdate(i) /\ i > 1 =>
              \/ IsUpdate(i - 1) /\ StartOf(i - 1) = StartOf(i)
              \/ IsClose(i - 1) /\ StartOf(i - 1) < StartOf(i)

\* C1 amended: the bars opened by a tick form blocks UPDATE+ ... CLOSE in
\* strictly increasing start_time order; between the last UPDATE of such a bar
\* and its CLOSE lie the gap-fill bars of the following periods, each as one
\* CLOSE without any UPDATE; no start_time is closed twice; every start_time
\* is a multiple of P.
C1_BlocksWithGapFill ==
    /\ Len(emitted) > 0 => IsUpdate(1) /\ IsUpdate(Len(emitted))
    /\ \A i \in 1..Len(emitted) :
        /\ StartOf(i) % Timeframe = 0
        /\ IsUpdate(i) /\ i > 1 /\ IsUpdate(i - 1) =>
              /\ StartOf(i - 1) = StartOf(i)
              /\ emitted[i - 1].Candle.Open = emitted[i].Candle.Open
        /\ IsClose(i) =>
              LET j == LastUpdateBefore(i) IN
              /\ j >= 1
              /\ i < Len(emitted)
              /\ IF IsUpdate(i + 1)
                 THEN \* the CLOSE of the bar opened by a tick, then the next bar
                      /\ emitted[i].Candle = emitted[j].Candle
                      /\ StartOf(i + 1) = StartOf(j) + (i - j) * Timeframe
                 ELSE \* a gap-fill bar: closed only
                      /\ StartOf(i) = StartOf(j) + (i - j) * Timeframe
                      /\ emitted[i].Candle.Volume = 0
        /\ \A k \in 1..Len(emitted) :
              IsClose(i) /\ IsClose(k) /\ StartOf(i) = StartOf(k) => i = k

\* witness of C1: a gap-fill CLOSE and the CLOSE of a bar that had two UPDATEs
C1_Witness ==
    /\ \E i \in 1..Len(emitted) : IsClose(i) /\ i < Len(emitted) /\ IsClose(i + 1)
    /\ \E i \in 3..Len(emitted) : IsClose(i) /\ IsUpdate(i - 1) /\ IsUpdate(i - 2)

\* the part of the last ProcessTick call the claims about one call read
CallWindow == Truncate(lastCall.tick.Timestamp, Timeframe)
CallOut == SubSeq(emitted, lastCall.from + 1, Len(emitted))
CallGap == (CallWindow - lastCall.before.StartTime) \div Timeframe
FlatCandle(t, p) ==
    [StartTime |-> t, Open |-> p, High |-> p, Low |-> p, Close |-> p, Volume |-> 0]

\* C2: a tick whose window is k >= 1 periods after the current bar C makes
\* ProcessTick emit exactly k-1 synthetic CLOSE events, one per period
\* C.start+P .. W(tick)-P, each flat at C.close with volume 0, then the CLOSE of
\* C, then the UPDATE of a new bar at W(tick) opened at the tick's price.
C2_GapFill ==
    (nTicks > 0 /\ lastCall.before # NilCandle /\ CallWindow > lastCall.before.StartTime) =>
        LET C == lastCall.before
            k == CallGap
        IN  /\ k >= 1
            /\ CallWindow = C.StartTime + k * Timeframe
            /\ Len(CallOut) = k + 1
            /\ \A i \in 1..(k - 1) :
                  CallOut[i] = PublishEvent("CLOSE",
                                   FlatCandle(C.StartTime + i * Timeframe, C.Close))
            /\ CallOut[k] = PublishEvent("CLOSE", C)
            /\ CallOut[k + 1].Status = "UPDATE"
            /\ CallOut[k + 1].Candle.StartTime = CallWindow
            /\ CallOut[k + 1].Candle.Open = lastCall.tick.Price

\* witness of C2: a call that found a bar three periods back (two synthetic bars)
C2_Witness ==
    /\ nTicks > 0
    /\ lastCall.before # NilCandle
    /\ CallGap = 3
    /\ Len(CallOut) = 4

\* C12: a tick whose truncated window is earlier than the current bar's start
\* is dropped: the current bar is unchanged and no event is emitted.
C12_LateTickDropped ==
    (nTicks > 0 /\ lastCall.before # NilCandle /\ CallWindow < lastCall.before.StartTime) =>
        /\ currentCandle = lastCall.before
        /\ CallOut = <<>>

\* witness of C12: the last tick was of an earlier window than the current bar
C12_Witness ==
    /\ nTicks > 0
    /\ lastCall.before # NilCandle
    /\ CallWindow < lastCall.before.StartTime
    /\ emitted # <<>>

RECURSIVE MaxPriceOf(_), MinPriceOf(_), VolumeOf(_)
MaxPriceOf(ticks) ==
    IF Len(ticks) = 1 THEN ticks[1].Price
    ELSE LET m == MaxPriceOf(Tail(ticks)) IN IF ticks[1].Price >= m THEN ticks[1].Price ELSE m
MinPriceOf(ticks) ==
    IF Len(ticks) = 1 THEN ticks[1].Price
    ELSE LET m == MinPriceOf(Tail(ticks)) IN IF ticks[1].Price <= m THEN ticks[1].Price ELSE m
VolumeOf(ticks) == IF ticks = <<>> THEN 0 ELSE ticks[1].Volume + VolumeOf(Tail(ticks))

\* the last call accepted its tick: there was no bar, or the tick's window is
\* the bar's or a later one
CallAccepted ==
    nTicks > 0 /\ (lastCall.before = NilCandle \/ CallWindow >= lastCall.before.StartTime)

\* C13: the bar of a window has open = price of the first accepted tick, high
\* and low = maximum and minimum of the accepted prices, close = price of the
\* latest tick, volume = sum of the tick volumes; every accepted tick emits
\* exactly one UPDATE, the last event of its call, carrying that state; a CLOSE
\* that follows an UPDATE of its bar carries the OHLCV of the bar's last UPDATE;
\* every emitted bar has low <= open, close <= high and volume >= 0.
C13_BarAggregatesTicks ==
    /\ currentCandle # NilCandle =>
          /\ winTicks # <<>>
          /\ currentCandle.Open = winTicks[1].Price
          /\ currentCandle.High = MaxPriceOf(winTicks)
          /\ currentCandle.Low = MinPriceOf(winTicks)
          /\ currentCandle.Close = winTicks[Len(winTicks)].Price
          /\ currentCandle.Volume = VolumeOf(winTicks)
    /\ CallAccepted =>
          /\ Cardinality({i \in 1..Len(CallOut) : CallOut[i].Status = "UPDATE"}) = 1
          /\ CallOut[Len(CallOut)] = PublishEvent("UPDATE", currentCandle)
    /\ \A i \in 1..Len(emitted) :
          /\ (IsClose(i) /\ \E j \in 1..(i - 1) : IsUpdate(j) /\ StartOf(j) = StartOf(i)) =>
                LET j == CHOOSE j \in 1..(i - 1) :
                            /\ IsUpdate(j) /\ StartOf(j) = StartOf(i)
                            /\ \A k \in (j + 1)..(i - 1) : ~(IsUpdate(k) /\ StartOf(k) = StartOf(i))
                IN  emitted[i].Candle = emitted[j].Candle
          /\ LET c == emitted[i].Candle
             IN  /\ c.Low <= c.Open /\ c.Open <= c.High
                 /\ c.Low <= c.Close /\ c.Close <= c.High
                 /\ c.Volume >= 0

\* witness of C13: a bar made of two or more ticks of different prices, closed
\* by a tick of a later window
C13_Witness ==
    /\ \E i \in 1..Len(emitted) :
          /\ IsClose(i)
          /\ emitted[i].Candle.Low < emitted[i].Candle.High
          /\ emitted[i].Candle.Volume >= 2
    /\ currentCandle # NilCandle

(***************************************************************************)
(* Claims about the publish tasks (SpecPub).                               *)
(***************************************************************************)
\* C3: the bar events of one (symbol, timeframe) reach the bus, and so any
\* single subscriber, in the order the state machine produced them: an event
\* produced earlier is never received after one produced later.
C3_DeliveredInEmissionOrder ==
    \A a, b \in 1..Len(delivered) : a < b => delivered[a] < delivered[b]

\* the case of C3: the CLOSE of a bar received after the UPDATE of the next bar
C3_CloseAfterNextUpdate ==
    \E a, b \in 1..Len(delivered) :
        /\ a < b
        /\ emitted[delivered[a]].Status = "UPDATE"
        /\ emitted[delivered[b]].Status = "CLOSE"
        /\ emitted[delivered[b]].Candle.StartTime < emitted[delivered[a]].Candle.StartTime

(***************************************************************************)
(* Claims about the buffer (SpecFeed, SpecRing).                           *)
(***************************************************************************)
StrictlyAscending(candles) ==
    \A i, j \in 1..Len(candles) : i < j => candles[i].Time < candles[j].Time

\* C4: after any live bar events applied through AddCandle in the order the
\* state machine emits them, possibly after a warmup, the bars of the buffer
\* are in strictly ascending start_time order, no two with the same start_time.
C4_BufferStrictlyAscending ==
    \A k \in Keys : buffers[k].exists => StrictlyAscending(buffers[k].candles)

\* the case of C4: an UPDATE and then the CLOSE of the same bar have been applied
C4_UpdateThenCloseApplied ==
    /\ fed >= 2
    /\ emitted[fed].Status = "CLOSE"
    /\ emitted[fed - 1].Status = "UPDATE"
    /\ emitted[fed].Candle = emitted[fed - 1].Candle

LastN(seq, n) == SubSeq(seq, Len(seq) - n + 1, Len(seq))

\* C5 as stated: the size never exceeds N, and once more than N bars have been
\* added the buffer is exactly the N bars added last, in insertion order.
C5_LastNAdded ==
    /\ Len(cb) <= maxSize
    /\ Len(addedLog) > maxSize => cb = LastN(addedLog, maxSize)

\* C5 amended (N >= 1): the size never exceeds N, and once more than N bars
\* have been added the buffer holds exactly N bars: the N newest of the bars
\* added, in insertion order, where every Update has replaced, for good, the
\* bar that was the newest when it was made (without any Update: exactly the
\* N bars added last).
C5_LastNSlots ==
    /\ Len(cb) <= maxSize
    /\ Len(addedLog) > maxSize =>
          /\ Len(cb) = maxSize
          /\ cb = LastN(slotLog, maxSize)

\* witness of C5: more than N bars added to a buffer of capacity N >= 2, one
\* of them replaced by an Update and still in the buffer after a later Add
C5_Witness ==
    /\ maxSize >= 2
    /\ Len(addedLog) > maxSize
    /\ cb # LastN(addedLog, maxSize)
    /\ cb[Len(cb)] = addedLog[Len(addedLog)]

(***************************************************************************)
(* Claims about the Hub (SpecHub).                                         *)
(***************************************************************************)
\* the messages of client c that the fan-out of bar event n put on its queue
EventMsgs(c, n) ==
    {i \in 1..Len(received[c]) : received[c][i].kind = "fanout" /\ received[c][i].ev = n}

C7_QueuedOnlyWhileSubscribed ==
    \A c \in ClientIds : \A i \in 1..Len(received[c]) : received[c][i].subscribed

\* C8: the snapshot message a client gets for a subscribe holds the bars of the
\* buffer from oldest to newest, no start time twice.
C8_SubscribeSnapshotAscending ==
    \A c \in ClientIds : \A i \in 1..Len(received[c]) :
        received[c][i].kind = "subscribe" =>
            /\ received[c][i].payload.data # <<>>
            /\ StrictlyAscending(received[c][i].payload.data)

\* C9: on one channel, the snapshots put on a client's queue never go back to
\* an older state of the buffer after a newer one.
C9_NeverOlderAfterNewer ==
    \A c \in ClientIds : \A i, j \in 1..Len(received[c]) :
        (i < j /\ received[c][i].payload.channel = received[c][j].payload.channel)
            => received[c][i].ver <= received[c][j].ver

\* the bars the warmup of key k puts in its buffer
WarmedBars(k) == IF db.present THEN loadFromDB(db.rows[k], maxSize) ELSE <<>>
BarTimes(candles) == {candles[i].Time : i \in 1..Len(candles)}

\* every snapshot served was read from a buffer whose warmup had finished
ServedAfterWarmup ==
    \A c \in ClientIds : \A i \in 1..Len(received[c]) : received[c][i].warm = "done"

\* C10: no snapshot for key K is built from the buffer before its warmup has
\* finished, and the first snapshot served for K contains the warmed bars
\* (stated where the capacity cannot have evicted any of them).
C10_FirstSnapshotHasWarmedBars ==
    \A c \in ClientIds : \A i \in 1..Len(received[c]) :
        LET m == received[c][i]
            k == KeyOf(m.payload.channel)
        IN  /\ m.warm = "done"
            /\ (m.first /\ Len(WarmedBars(k)) + nEvents <= maxSize)
                  => BarTimes(WarmedBars(k)) \subseteq BarTimes(m.payload.data)

\* C11: the subscription multimap holds client c under channel x exactly when
\* the last frame of c about x was a subscribe and c has not been unregistered;
\* an unregistered client is under no channel, and no channel of the multimap
\* has an empty client set.
C11_SubscriptionMultimap ==
    /\ \A c \in ClientIds : \A x \in Channels :
          IsSubscribed(c, x) <=> (lastOp[c][x] = "subscribe" /\ conn[c] # "gone")
    /\ \A c \in ClientIds : conn[c] = "gone" =>
          \A x \in DOMAIN Subscriptions : c \notin Subscriptions[x]
    /\ \A x \in DOMAIN Subscriptions : Subscriptions[x] # {}

\* witness of C11: a client unregistered while subscribed, the other client
\* still subscribed to the same channel
C11_Witness ==
    \E c, d \in ClientIds : \E x \in Channels :
        /\ conn[c] = "gone"
        /\ lastOp[c][x] = "subscribe"
        /\ conn[d] = "open"
        /\ IsSubscribed(d, x)

(***************************************************************************)
(* Claims about AddCandle (SpecAdd).                                       *)
(***************************************************************************)
\* the five conditions of a valid bar
FiveConditions(c) ==
    /\ c.High >= c.Low
    /\ c.High >= c.Open
    /\ c.High >= c.Close
    /\ c.Low <= c.Open
    /\ c.Low <= c.Close

\* the buffer the last AddCandle call worked on: the one it found, or on the
\* first use of the key the one created and warmed for it
AddBase ==
    IF lastAdd.before.exists THEN lastAdd.before.candles ELSE WarmedBars(lastAdd.key)

\* C14: AddCandle with a bar that breaks one of the five conditions leaves the
\* buffer as it was, whatever the status; a bar that meets all five is stored
\* (it is the newest bar of the buffer afterwards).
C14_InvalidBarRejected ==
    lastAdd.n > 0 =>
        LET after == buffers[lastAdd.key].candles IN
        IF FiveConditions(lastAdd.candle)
        THEN /\ after # <<>>
             /\ after[Len(after)] = lastAdd.candle
        ELSE after = AddBase

\* witness of C14: an UPDATE with low > close called on a buffer that holds bars
C14_Witness ==
    /\ lastAdd.n > 0
    /\ ~lastAdd.isNew
    /\ lastAdd.before.exists
    /\ lastAdd.before.candles # <<>>
    /\ lastAdd.candle.High >= lastAdd.candle.Low
    /\ lastAdd.candle.High >= lastAdd.candle.Open
    /\ lastAdd.candle.Low > lastAdd.candle.Close

(***************************************************************************)
(* Claims about GetAll (SpecCopy).                                         *)
(***************************************************************************)
\* C15: the slice GetAll / GetCandles returns does not alias the buffer: a
\* write of a reader task to its slice (an element overwritten, a bar
\* appended) leaves the bars of the buffer, hence a further GetAll, as they
\* were, with two reader tasks and Add / Update running in any order.
C15_CopyDoesNotAlias ==
    /\ \A t \in ReaderTasks : views[t] # NoView => views[t].arr = "own"
    /\ lastMut.n > 0 => GetAll(lastMut.after).data = GetAll(lastMut.before).data

\* witness of C15: both reader tasks hold a slice they have written to, over a
\* buffer that holds bars
C15_Witness ==
    /\ lastMut.n >= 2
    /\ cb # <<>>
    /\ \A t \in ReaderTasks :
          /\ views[t] # NoView
          /\ \E i \in 1..Len(views[t].data) : views[t].data[i] = Scribble

(***************************************************************************)
(* Claims about the writer (SpecWriter).                                   *)
(***************************************************************************)
ClosesReceived == {i \in 1..Len(wlog) : wlog[i].Status = "CLOSE"}
FirstClose(k) ==
    CHOOSE i \in ClosesReceived :
        /\ ConflictKey(wlog[i].Candle) = k
        /\ \A j \in ClosesReceived : ConflictKey(wlog[j].Candle) = k => i <= j

C17_MarginConservation ==
    lastTrade.n > 0 =>
        LET u == lastTrade.req.UserID
            before == lastTrade.users
            after == lastTrade.usersAfter
            known == u \in DOMAIN before
            short == known /\ before[u].FreeMargin * LotScale < lastTrade.req.Lots * MarginPerLot
        IN  IF lastTrade.resp.Success
            THEN /\ known /\ ~short
                 /\ DOMAIN after = DOMAIN before
                 /\ (after[u].Margin - before[u].Margin) * LotScale
                        = lastTrade.req.Lots * MarginPerLot
                 /\ after[u].Margin - before[u].Margin > 0
                 /\ (after[u].FreeMargin - before[u].FreeMargin)
                        + (after[u].Margin - before[u].Margin) = 0
                 /\ after[u].Balance = before[u].Balance
                 /\ \A v \in DOMAIN before : v # u => after[v] = before[v]
                 /\ lastTrade.positions \subseteq lastTrade.positionsAfter
                 /\ Cardinality(lastTrade.positionsAfter) = Cardinality(lastTrade.positions) + 1
            ELSE /\ ~known \/ short
                 /\ after = before
                 /\ lastTrade.positionsAfter = lastTrade.positions

\* witness of C17: a trade has just failed for want of free margin on an account
\* that an earlier successful trade has drawn on
C17_Witness ==
    /\ lastTrade.n > 1
    /\ ~lastTrade.resp.Success
    /\ lastTrade.req.UserID \in DOMAIN lastTrade.users
    /\ lastTrade.users[lastTrade.req.UserID].Margin > 0
    /\ positions # {}

\* C18, as stated: every account has free_margin = balance - margin.
C18_FreeIsBalanceLessMargin ==
    \A u \in DOMAIN users : users[u].FreeMargin = users[u].Balance - users[u].Margin

\* C18, as the code has it: every account has free_margin = 80% of its balance
\* less its margin, from StartEA's registration on.
C18_FreeIsEightyPercentLessMargin ==
    \A u \in DOMAIN users :
        /\ users[u].FreeMargin * 10 = users[u].Balance * 8 - users[u].Margin * 10
        /\ users[u].Margin >= 0
        /\ users[u].FreeMargin >= 0

\* witness of C18: an account with money on it has margin booked by a trade
C18_Witness ==
    \E u \in DOMAIN users : users[u].Balance > 0 /\ users[u].Margin > 0

\* C19: an instance whose local open-position count is >= max_positions
\* executes no trade for an incoming signal and its count is unchanged; so an
\* instance with max_positions >= 0 never holds more than max_positions.
C19_AdmissionCap ==
    /\ lastSig.n > 0 =>
          LET ea == instances[lastSig.orderID] IN
          /\ lastSig.before >= ea.MaxPositions =>
                /\ lastSig.calls = 0
                /\ lastSig.opened = {}
                /\ lastSig.after = lastSig.before
          /\ lastSig.after = Cardinality(ea.positions)
    /\ \A o \in OrderIds :
          (instances[o] # NoInstance /\ instances[o].MaxPositions >= 0) =>
              Cardinality(instances[o].positions) <= instances[o].MaxPositions

\* witness of C19: an instance that holds max_positions >= 1 open positions
\* has just taken a signal
C19_Witness ==
    /\ lastSig.n > 0
    /\ instances[lastSig.orderID].MaxPositions >= 1
    /\ lastSig.before = instances[lastSig.orderID].MaxPositions
    /\ lastSig.calls = 0

\* C20: while an instance's paused flag is set nothing is put on its signal
\* queue; every send on signalChan happens with the flag clear.
C20_NoSignalWhilePaused ==
    lastEnq.n > 0 => ~lastEnq.paused

(***************************************************************************)
(* Claims about Stop and the supervisor (SpecStop, SpecStopFair, SpecSup). *)
(***************************************************************************)
\* C21: Stop is idempotent: a second stop of the same order, on the instance
\* or through StopEA, leaves the state as the first stop left it; an
\* instance's context is cancelled and its stopChan closed exactly once, and
\* StopEA unlinks the order from the supervisor's map.
C21_StopIdempotent ==
    /\ \A o \in OrderIds :
          /\ stopChan[o].cancels = (IF stopChan[o].stopped THEN 1 ELSE 0)
          /\ stopChan[o].closes = (IF stopChan[o].stopped THEN 1 ELSE 0)
    /\ (lastSup.n > 0 /\ lastSup.op \in {"Stop", "StopEA"}) =>
          LET o == lastSup.orderID
              b == lastSup.before
              a == lastSup.after
          IN  /\ (lastSup.op = "Stop" \/ o \in b.active) => a.stopChan[o].stopped
              /\ b.stopChan[o].stopped =>
                    /\ a.stopChan = b.stopChan
                    /\ a.instances = b.instances
                    /\ a.tasks = b.tasks
              /\ (lastSup.op = "Stop" /\ b.stopChan[o].stopped) => a = b
              /\ (lastSup.op = "StopEA" /\ o \notin b.active) => a = b
              /\ lastSup.op = "StopEA" => a.active = b.active \ {o}
              /\ lastSup.op = "Stop" => a.active = b.active

\* witness of C21: Stop has been called on an instance that StopEA had
\* stopped and unlinked before
C21_Witness ==
    /\ lastSup.n > 0
    /\ lastSup.op = "Stop"
    /\ lastSup.before.stopChan[lastSup.orderID].stopped
    /\ lastSup.orderID \notin lastSup.before.active

\* C22: after Stop on a started instance both of its tasks terminate in the
\* end, whatever the state of the signal queue.
C22_TasksTerminate ==
    \A o \in OrderIds :
        stopChan[o].stopped ~> (tasks[o].sub # "run" /\ tasks[o].disp # "run")

\* C23: once Stop has returned, the instance submits no trade request and its
\* positions do not change.
C23_StoppedIsTerminal ==
    (lastSig.n > 0 /\ lastSig.stopped) =>
        /\ lastSig.calls = 0
        /\ lastSig.after = lastSig.before

\* a supervisor call that breaks the contract: start of an active order or
\* with an unknown ea_name, stop, pause or resume of an order that is not active
SupViolation ==
    \/ /\ lastSup.op = "StartEA"
       /\ \/ lastSup.orderID \in lastSup.before.active
          \/ lastSup.arg \notin {"GreenArrow", "MACD"}
    \/ /\ lastSup.op \in {"StopEA", "PauseEA", "ResumeEA"}
       /\ lastSup.orderID \notin lastSup.before.active

\* C24: a supervisor call that breaks the contract returns an error and leaves
\* the instances map as it was, every other call returns none; the map holds
\* at most one instance per order id.
C24_ViolationsAreErrors ==
    /\ lastSup.n > 0 =>
          /\ lastSup.err <=> SupViolation
          /\ lastSup.err => lastSup.after = lastSup.before
          /\ (lastSup.op = "StartEA" /\ ~lastSup.err) =>
                /\ lastSup.orderID \notin lastSup.before.active
                /\ lastSup.after.active = lastSup.before.active \cup {lastSup.orderID}
    /\ \A o \in active : instances[o] # NoInstance /\ instances[o].orderID = o

\* witness of C24: StartEA has just been refused for an order id that is active
C24_Witness ==
    /\ lastSup.n > 0
    /\ lastSup.op = "StartEA"
    /\ lastSup.err
    /\ lastSup.orderID \in lastSup.before.active
    /\ lastSup.arg \in {"GreenArrow", "MACD"}

\* C25: every instance in the supervisor's map owns its two running tasks
\* until it is stopped, whatever its config.
C25_TwoTasksWhileActive ==
    \A o \in active :
        ~stopChan[o].stopped => tasks[o] = [sub |-> "run", disp |-> "run"]


\* C26: every tick handed to the dispatcher is enqueued on its symbol's queue
\* or counted as dropped: per symbol, received = enqueued + dropped (plus the
\* one tick a call is still waiting to send), and the queue holds what was
\* enqueued and not yet taken, never more than its capacity
C26_TickAccounting ==
    \A sym \in TickSymbols :
        LET waiting == IF quoteWait # NoTick /\ quoteWait.Symbol = sym THEN 1 ELSE 0 IN
        /\ Len(tickChannels[sym].q) <= TickChanCap
        /\ tickLog[sym].received = tickLog[sym].enqueued + droppedTicks[sym] + waiting
        /\ Len(tickChannels[sym].q) = tickLog[sym].enqueued - tickLog[sym].taken
C26_Witness ==
    /\ quoteWait = NoTick
    /\ droppedTicks["XAUUSD"] >= 1
    /\ Len(tickChannels["XAUUSD"].q) = TickChanCap
    /\ tickLog["XAUUSD"].taken >= 1


\* C27: ProcessIndicator gives a BUY at up_signal with stop up_stop for a
\* sample with is_signal, trend +1 and up_signal > 0, a SELL at down_signal
\* with stop down_stop for one with is_signal, trend -1 and down_signal > 0,
\* and no signal for every other sample
C27_SignalMapping ==
    (fnOut # NotCalled /\ fnIn \in SignalSamples) =>
        IF fnIn # BadPayload /\ fnIn.IsSignal /\ fnIn.Trend = 1 /\ fnIn.UpSignal > 0
        THEN fnOut = [Type |-> "BUY", Price |-> fnIn.UpSignal, StopLoss |-> fnIn.UpStop]
        ELSE IF fnIn # BadPayload /\ fnIn.IsSignal /\ fnIn.Trend = -1
                /\ fnIn.DownSignal > 0
        THEN fnOut = [Type |-> "SELL", Price |-> fnIn.DownSignal,
                      StopLoss |-> fnIn.DownStop]
        ELSE fnOut = NoSignal
C27_Witness ==
    /\ fnIn \in SignalSamples /\ fnIn # BadPayload
    /\ fnIn.IsSignal /\ fnIn.Trend = -1 /\ fnIn.DownSignal > 0 /\ fnIn.UpSignal > 0
    /\ fnOut # NotCalled /\ fnOut # NoSignal /\ fnOut.Type = "SELL"


\* C28: with the default parameters, on closes flat over the first Length or
\* more bars and strictly rising after, every flat bar's sample has trend 0,
\* its fields at their sentinels and is_signal false; the first sample with
\* trend +1 and is_signal is the first bar whose close is above the upper
\* Bollinger band of the bar before, and its up_signal is its lower stop
C28_FlatThenRising ==
    (fnOut # NotCalled /\ fnOut.done /\ fnIn.flat > 0) =>
        LET length == fnIn.params.Length
            n == Len(fnIn.candles)
            signals == {i \in (length - 1)..(n - 1) :
                           fnOut.results[i].Trend = 1 /\ fnOut.results[i].IsSignal}
            crossings ==
                {i \in length..(n - 1) :
                    Less(CalculateBollingerBands(fnIn.candles, i - 1, length,
                                                 fnIn.params.Deviation).Upper,
                         Whole(Close(fnIn.candles, i), length))}
        IN  /\ \A i \in (length - 1)..(fnIn.flat - 1) :
                   fnOut.results[i] = NewResult(length)
            /\ signals # {}
            /\ \A i \in signals :
                   (\A j \in signals : i <= j) =>
                       /\ i \in crossings
                       /\ \A j \in crossings : i <= j
                       /\ fnOut.results[i].UpSignal = fnOut.lowerStop[i]


\* C29: for every signal mode and every scanned bar with a trend, is_signal
\* is true exactly when the bar is fresh: it is bar Length - 1, or the stop
\* field of the trend's direction of the bar before is the sentinel -1
C29_SignalIffFresh ==
    (fnOut # NotCalled /\ fnIn \in ArrowInputs) =>
        LET length == fnIn.params.Length IN
        \A i \in (length - 1)..(fnOut.i - 1) :
            LET sample == fnOut.results[i]
                fresh ==
                    \/ i = length - 1
                    \/ Same(IF sample.Trend > 0 THEN fnOut.results[i - 1].UpStop
                            ELSE fnOut.results[i - 1].DownStop,
                            Whole(-1, length))
            IN  sample.Trend # 0 => (sample.IsSignal <=> fresh)


\* C30: CalculateLots returns lots within 0.01 .. 10.0: 0.01 when the stop is
\* at the entry, else riskAmount / (|entry - stop| * 10) kept within those
\* bounds and rounded to two decimals, that is within half a hundredth of it
C30_LotsWithinBounds ==
    (fnOut # NotCalled /\ fnIn \in LotsInputs) =>
        LET pointsRisk == abs(fnIn.entryPrice - fnIn.stopLoss)
            num == fnIn.balance * fnIn.riskPercent
            den == pointsRisk * PointValue
        IN  /\ fnOut.lots \in MinLots..MaxLots
            /\ pointsRisk = 0 => fnOut.lots = MinLots
            /\ (pointsRisk # 0 /\ num < MinLots * den) => fnOut.lots = MinLots
            /\ (pointsRisk # 0 /\ num > MaxLots * den) => fnOut.lots = MaxLots
            /\ (pointsRisk # 0 /\ num >= MinLots * den /\ num <= MaxLots * den) =>
                   2 * abs(fnOut.lots * den - num) <= den
C30_Witness ==
    /\ fnOut # NotCalled /\ fnIn \in LotsInputs
    /\ fnIn.entryPrice # fnIn.stopLoss
    /\ fnOut.lots > MinLots /\ fnOut.lots < MaxLots
    /\ (fnIn.balance * fnIn.riskPercent)
           % (abs(fnIn.entryPrice - fnIn.stopLoss) * PointValue) # 0


\* C31: a quote with a missing symbol, with a symbol that is empty once cut
\* at the first ".", with an unrecognized time or with a type other than
\* Quote yields no tick: handling it makes no queue or worker and changes
\* neither the dispatcher's nor the aggregators' state
MustBeDropped(quote) ==
    quote.Type # "Quote" \/ ~quote.TimeOk \/ quote.Symbol[1] = ""
C31_BadQuotesDropped ==
    [][\A quote \in UpstreamQuotes :
          (HandleRawQuote(quote) /\ MustBeDropped(quote)) =>
              UNCHANGED <<tickChannels, droppedTicks, quoteWait, tickLog, aggVars>>]_vars


\* C32: a valid bar event applied to a buffer of k bars and capacity N: a
\* CLOSE leaves min(k+1, N) bars, the event's bar last and the earlier bars
\* as they were but for the evicted oldest; an UPDATE with k >= 1 leaves k
\* bars with only the last replaced by the event's bar; an UPDATE with k = 0
\* leaves the one bar; and the snapshot fanned out for the event carries
\* exactly the resulting buffer
AppliedAsSpecified(old, new, bar, isNew, n) ==
    LET k == Len(old) IN
    IF isNew
    THEN /\ Len(new) = Min(k + 1, n)
         /\ new[Len(new)] = bar
         /\ k < n => \A i \in 1..k : new[i] = old[i]
         /\ k >= n => \A i \in 1..(n - 1) : new[i] = old[i + 1]
    ELSE IF k >= 1
    THEN /\ Len(new) = k
         /\ new[k] = bar
         /\ \A i \in 1..(k - 1) : new[i] = old[i]
    ELSE new = <<bar>>
C32_EventApplied ==
    [][/\ (HubAddCandle /\ OHLCValid(ToCandleData(hubEv.Candle))) =>
              AppliedAsSpecified(buffers[hubEv.key].candles, buffers'[hubEv.key].candles,
                                 ToCandleData(hubEv.Candle), hubEv.Status = "CLOSE", maxSize)
       /\ HubForward =>
              \A c \in ClientIds :
                  Send'[c] # Send[c] =>
                      Send'[c][Len(Send'[c])].data = buffers[hubEv.key].candles]_vars
C32_Witness ==
    /\ lastFan.sent
    /\ Len(lastFan.data) = maxSize
    /\ maxSize > 1
    /\ lastFan.data = buffers[KeyOf(lastFan.channel)].candles
    /\ LET warmed == loadFromDB(db.rows[KeyOf(lastFan.channel)], maxSize) IN
          /\ Len(warmed) = maxSize
          /\ lastFan.data[1] = warmed[2]
    /\ \E c \in ClientIds :
          /\ received[c] # <<>>
          /\ received[c][Len(received[c])].kind = "fanout"
          /\ received[c][Len(received[c])].payload.data = lastFan.data

WarmQueried == 
    LET m == Min(Len(fnIn.rows), fnIn.n) IN [j \in 1..m |-> fnIn.rows[m + 1 - j]]
RowValid(c) ==
    c.High >= c.Low /\ c.High >= c.Open /\ c.High >= c.Close /\ c.Low <= c.Open /\ c.Low <= c.Close
\* the queried rows that are to be kept: valid, and later than every valid
\* row before them
WarmKept ==
    {j \in DOMAIN WarmQueried :
        /\ RowValid(WarmQueried[j])
        /\ \A k \in 1..(j - 1) :
              RowValid(WarmQueried[k]) => WarmQueried[k].Time < WarmQueried[j].Time}

\* C34: after warmup the buffer holds at most N bars, all OHLC-valid, in
\* strictly increasing start_time order; they are exactly the queried rows
\* that are valid and later than the last row kept before them, so a skipped
\* row does not end the load
C34_WarmupValidAscending ==
    fnOut # NotCalled =>
        LET out == fnOut.candles IN
        /\ Len(out) <= fnIn.n
        /\ \A i \in 1..Len(out) : RowValid(out[i])
        /\ \A i \in 1..(Len(out) - 1) : out[i].Time < out[i + 1].Time
        /\ Len(out) = Cardinality(WarmKept)
        /\ {out[i] : i \in 1..Len(out)} = {WarmQueried[j] : j \in WarmKept}

\* the oldest queried row is invalid, start times do not repeat, and the row
\* after the skipped one is in the buffer
C34_Witness ==
    /\ fnOut # NotCalled
    /\ Len(fnIn.rows) = fnIn.n /\ fnIn.n > 1
    /\ \A i \in 1..(Len(fnIn.rows) - 1) : fnIn.rows[i].Time > fnIn.rows[i + 1].Time
    /\ ~RowValid(WarmQueried[1])
    /\ fnOut.candles = <<WarmQueried[2]>>

\* C35: no task of the Hub sends on a client's Send after Unregister has
\* closed it: the send on a closed queue, which ends the process, never happens
C35_NoSendOnClosedQueue == ~crashed

\* C36: a stored bar leaves its buffer only as the oldest bar evicted by a
\* CLOSE at capacity, or as the bar an UPDATE of the same start_time
\* replaces: an UPDATE never removes or overwrites a bar of another
\* start_time, the last warmed bar included
C36_UpdateKeepsOtherBars ==
    lastAdd.n > 0 =>
        LET after == buffers[lastAdd.key].candles IN
        \A i \in 1..Len(AddBase) :
            (\A j \in 1..Len(after) : after[j] # AddBase[i]) =>
                IF lastAdd.isNew
                THEN i = 1 /\ Len(AddBase) = maxSize
                ELSE AddBase[i].Time = lastAdd.candle.Time

\* C37: while an instance is paused no trade is executed for it: a signal
\* the dispatcher takes while the paused flag is set, queued before the
\* Pause or not, leads to no ExecuteTrade call and opens no position
C37_NoTradeWhilePaused ==
    (lastSig.n > 0 /\ lastSig.paused) =>
        /\ lastSig.calls = 0
        /\ lastSig.opened = {}

\* C38: the free_margin and the margin of every account are never negative,
\* whatever ExecuteTrade calls are made on it
C38_MarginsNeverNegative ==
    \A id \in DOMAIN users : users[id].FreeMargin >= 0 /\ users[id].Margin >= 0

\* a trade refused for its margin on an account that has margin in use and
\* free margin left, too little for the trade
C38_Witness ==
    /\ lastTrade.n > 1
    /\ lastTrade.resp.Message = "margin"
    /\ LET user == users[lastTrade.req.UserID] IN
       /\ user.Margin > 0
       /\ user.FreeMargin > 0
       /\ user.FreeMargin < RequiredMargin(lastTrade.req.Lots)
       /\ user.Margin + user.FreeMargin = (user.Balance * 8) \div 10

\* C40: in signal mode 1 every sample with is_signal has its signal value
\* equal to the stop value of its direction; the signal the Green Arrow
\* strategy derives from it has price = stop_loss and is traded at the
\* minimum lots
C40_SignalEqualsStop ==
    (fnOut # NotCalled /\ fnIn.params.Signal = 1) =>
        /\ \A i \in DOMAIN fnOut.results :
              LET r == fnOut.results[i] IN
              r.IsSignal =>
                  /\ r.Trend \in {-1, 1}
                  /\ r.Trend = 1 => r.UpSignal = r.UpStop
                  /\ r.Trend = -1 => r.DownSignal = r.DownStop
        /\ "signals" \in DOMAIN fnOut =>
              \A i \in DOMAIN fnOut.results :
                  fnOut.signals[i] # NoSignal =>
                      /\ fnOut.results[i].IsSignal
                      /\ fnOut.signals[i].Price = fnOut.signals[i].StopLoss
                      /\ fnOut.lots[i] = MinLots

\* mode 1, a BUY and a SELL signal derived from samples of one result, the
\* BUY from a level that is no whole number
C40_Witness ==
    /\ fnOut # NotCalled /\ fnIn.params.Signal = 1
    /\ "signals" \in DOMAIN fnOut
    /\ \E i, j \in DOMAIN fnOut.results :
          /\ fnOut.signals[i] # NoSignal /\ fnOut.signals[i].Type = "BUY"
          /\ fnOut.results[i].UpSignal.v # 0
          /\ fnOut.lots[i] = MinLots
          /\ fnOut.signals[j] # NoSignal /\ fnOut.signals[j].Type = "SELL"

\* the bars whose sample was published with is_signal
SignalBars ==
    {indPublished[i].bar : i \in {j \in 1..Len(indPublished) : indPublished[j].data.IsSignal}}

\* C39: an instance opens at most one position for one fresh-signal bar:
\* it never holds more positions than there were bars with a published
\* is_signal sample
C39_OnePositionPerSignalBar ==
    \A o \in OrderIds :
        o \in active => Cardinality(instances[o].positions) <= Cardinality(SignalBars)

====
